---- MODULE Spec2Model ----
(***************************************************************************)
(* A model of the scam-call dataset pipeline: the combination of a         *)
(* diarization result with a transcription result                          *)
(* (transcription_pipeline.py), the CSV metadata store                     *)
(* (metadata_manager.py) and the phases of main_pipeline.py that feed and  *)
(* read them.                                                              *)
(*                                                                         *)
(* Several specifications share the module.  SpecAlign draws one           *)
(* recording's diarization and transcription files and combines them,      *)
(* SpecUnchecked does so for files whose intervals are not checked, and    *)
(* SpecScan takes the two loops of the combination one step at a time.     *)
(* SpecInsert builds a transcript's list of segments.  Spec runs the       *)
(* metadata operations on the CSV file, SpecConcurrent runs them for two   *)
(* callers at once, SpecEntry draws the arguments of an entry.  SpecPipe   *)
(* runs the last phases of the pipeline on a batch, SpecRun the phases of  *)
(* run_full_pipeline in their order.                                       *)
(***************************************************************************)
EXTENDS Integers, Sequences, FiniteSets

VARIABLES
    diarization_file,     \* <file_id>_diarization.json of the recording
    transcription_file,   \* <file_id>_transcript.json of the recording
    combined_result,      \* what combine_diarization_transcription returned
    metadata_file,        \* metadata/dataset_metadata.csv
    processed_dir,        \* the file_ids of audio/processed/*.wav
    combined_dir,         \* the file_ids of transcripts/combined/*_combined.json
    last_op,              \* the operation that ran last, with its arguments
    result,               \* what that operation returned or logged
    diarization_dir,      \* diarization/*_diarization.json, by file_id
    transcript_dir,       \* transcripts/*_transcript.json, by file_id
    combined_data,        \* what each file of combined_dir holds, by file_id
    processing_log,       \* self.processing_log of the pipeline
    calls,                \* the store operations in progress, by caller
    entry_call,           \* the arguments create_metadata_entry is called with
    diar_pos,             \* the outer loop of the combination: which diar_seg
    trans_pos,            \* its inner loop: how many trans_seg were tested
    overlapping,          \* overlapping_text of the diar_seg in hand
    combined_segments,    \* combined_segments of the combination in hand
    built_segments,       \* segments of the transcription in hand
    raw_dir,              \* the file_ids of the recordings in audio/raw
    project_dir           \* the directories and batch summaries that exist

alignVars == <<diarization_file, transcription_file, combined_result>>

storeVars == <<metadata_file, processed_dir, combined_dir, last_op, result>>

pipeVars == <<diarization_dir, transcript_dir, combined_data, processing_log>>

callVars == <<calls, entry_call>>

loopVars == <<diar_pos, trans_pos, overlapping, combined_segments, built_segments>>

runVars == <<raw_dir, project_dir>>

vars == <<diarization_file, transcription_file, combined_result,
          metadata_file, processed_dir, combined_dir, last_op, result,
          diarization_dir, transcript_dir, combined_data, processing_log,
          calls, entry_call,
          diar_pos, trans_pos, overlapping, combined_segments, built_segments,
          raw_dir, project_dir>>

----------------------------------------------------------------------------
(* Bounds of the model.                                                    *)

\* Time stamps are the whole seconds 0 .. MaxTime.
MaxTime == 2
\* The diarization and the transcription of a recording hold at most MaxSegs
\* segments between them.
MaxSegs == 3
\* The metadata file holds at most MaxRows rows.
MaxRows == 2

Times == 0 .. MaxTime

\* The intervals the two recognisers emit: start <= end (a turn of pyannote,
\* a segment of Whisper); a zero-length interval is among them.
Intervals == {iv \in Times \X Times : iv[1] <= iv[2]}

\* Speaker labels of the diarizer.
Speakers == {"SPEAKER_00", "SPEAKER_01"}

\* Texts are sequences of characters.  The transcript segment at position j
\* says the letter Letter(j), or nothing at all (Whisper's text of a segment
\* after strip() may be empty), so that the aligned text shows which
\* segments went into it and in which order.
Letter(j) == IF j = 1 THEN "a" ELSE IF j = 2 THEN "b" ELSE IF j = 3 THEN "c" ELSE "d"

Space == " "

EmptyText == << >>

\* The file_id of the recording, the stem of its file names.
RecordingId == "c1"

\* The language Whisper reports for the recording.
TranscriptLanguage == "hi"

----------------------------------------------------------------------------
(* Small helpers.                                                          *)

Max2(a, b) == IF a >= b THEN a ELSE b

Min2(a, b) == IF a <= b THEN a ELSE b

\* The maximum of a non-empty finite set of integers.
MaxOf(S) == CHOOSE m \in S : \A x \in S : x <= m

\* All sequences over S of length at most n.
SeqsUpTo(S, n) == UNION {[1 .. k -> S] : k \in 0 .. n}

----------------------------------------------------------------------------
(* The diarization result, as diarize_audio builds it and save_diarization *)
(* writes it.                                                              *)

DiarSegment(iv, speaker) ==
    [start |-> iv[1], end |-> iv[2], speaker |-> speaker, duration |-> iv[2] - iv[1]]

\* A faulty variant of DiarizationResult: num_speakers counts the segments.
DiarizationResultCountsSegments(segments) ==
    LET speakers == {segments[k].speaker : k \in DOMAIN segments}
    IN  [num_speakers   |-> Len(segments),
         speakers       |-> speakers,
         segments       |-> segments,
         total_duration |-> IF segments # << >>
                              THEN MaxOf({segments[k].end : k \in DOMAIN segments})
                              ELSE 0]

\* speakers is list(set(...)): its order is the set's, so it is kept as a set.
DiarizationResult(segments) ==
    LET speakers == {segments[k].speaker : k \in DOMAIN segments}
    IN  [num_speakers   |-> Cardinality(speakers),
         speakers       |-> speakers,
         segments       |-> segments,
         total_duration |-> IF segments # << >>
                              THEN MaxOf({segments[k].end : k \in DOMAIN segments})
                              ELSE 0]

\* The transcription result, as transcribe_with_timestamps builds it.
TransSegment(iv, text) == [start |-> iv[1], end |-> iv[2], text |-> text]

TranscriptionResult(segments) ==
    [language |-> TranscriptLanguage,
     duration |-> IF segments # << >>
                    THEN MaxOf({segments[k].end : k \in DOMAIN segments})
                    ELSE 0,
     segments |-> segments]

\* A file on disk: readable JSON holding data, or a file json.load fails on
\* (or that open() does not find).
ReadableFile(data) == [readable |-> TRUE, data |-> data]

UnreadableFile == [readable |-> FALSE]

\* The diarization files of at most n segments, and a file that does not load.
DiarizationFiles(n) ==
    {ReadableFile(DiarizationResult(segs)) :
        segs \in {[k \in DOMAIN ivs |-> DiarSegment(ivs[k][1], ivs[k][2])] :
                     ivs \in SeqsUpTo(Intervals \X Speakers, n)}}
    \cup {UnreadableFile}

\* The transcription files of at most n segments, and a file that does not load.
TranscriptionFiles(n) ==
    {ReadableFile(TranscriptionResult(segs)) :
        segs \in {[k \in DOMAIN ivs |->
                      TransSegment(ivs[k][1], IF ivs[k][2] THEN <<Letter(k)>> ELSE EmptyText)] :
                     ivs \in SeqsUpTo(Intervals \X BOOLEAN, n)}}
    \cup {UnreadableFile}

\* The number of segments of a file (none when it does not load).
SegmentCount(file) == IF file.readable THEN Len(file.data.segments) ELSE 0

----------------------------------------------------------------------------
(* combine_diarization_transcription.                                      *)

\* " ".join(texts)
RECURSIVE JoinSpace(_)
JoinSpace(texts) ==
    IF texts = << >> THEN EmptyText
    ELSE IF Len(texts) = 1 THEN texts[1]
    ELSE texts[1] \o <<Space>> \o JoinSpace(Tail(texts))

\* str.strip(): leading and trailing whitespace removed.
RECURSIVE LStrip(_)
LStrip(text) ==
    IF text # << >> /\ Head(text) = Space THEN LStrip(Tail(text)) ELSE text

RECURSIVE RStrip(_)
RStrip(text) ==
    IF text # << >> /\ text[Len(text)] = Space
    THEN RStrip(SubSeq(text, 1, Len(text) - 1))
    ELSE text

Strip(text) == RStrip(LStrip(text))

\* A faulty variant of OverlapEntry: min and max are exchanged, so that the
\* entry spans both segments.
OverlapEntrySpanning(trans_seg, diar_seg) ==
    LET overlap_start == Min2(trans_seg.start, diar_seg.start)
        overlap_end   == Max2(trans_seg.end, diar_seg.end)
    IN  [text             |-> trans_seg.text,
         start            |-> overlap_start,
         end              |-> overlap_end,
         overlap_duration |-> overlap_end - overlap_start]

\* The entry appended to overlapping_text for a transcript segment.
OverlapEntry(trans_seg, diar_seg) ==
    LET overlap_start == Max2(trans_seg.start, diar_seg.start)
        overlap_end   == Min2(trans_seg.end, diar_seg.end)
    IN  [text             |-> trans_seg.text,
         start            |-> overlap_start,
         end              |-> overlap_end,
         overlap_duration |-> overlap_end - overlap_start]

\* Faulty variants of Contributes: the comparisons made non-strict, and the overlap
\* test alone made non-strict.
ContributesTouching(trans_seg, diar_seg) ==
    /\ trans_seg.start <= diar_seg.end
    /\ trans_seg.end >= diar_seg.start
    /\ OverlapEntry(trans_seg, diar_seg).overlap_duration >= 0

ContributesNonNegative(trans_seg, diar_seg) ==
    /\ trans_seg.start < diar_seg.end
    /\ trans_seg.end > diar_seg.start
    /\ OverlapEntry(trans_seg, diar_seg).overlap_duration >= 0

\* A faulty variant of Contributes: the test of overlap_duration is left out.
ContributesGuardless(trans_seg, diar_seg) ==
    /\ trans_seg.start < diar_seg.end
    /\ trans_seg.end > diar_seg.start

\* The two tests a transcript segment passes before it is appended.
Contributes(trans_seg, diar_seg) ==
    /\ trans_seg.start < diar_seg.end
    /\ trans_seg.end > diar_seg.start
    /\ OverlapEntry(trans_seg, diar_seg).overlap_duration > 0

\* A faulty variant of OverlappingText: each entry is put in front of the list.
RECURSIVE OverlappingTextPrepend(_, _)
OverlappingTextPrepend(diar_seg, trans_segs) ==
    IF trans_segs = << >> THEN << >>
    ELSE LET rest == OverlappingTextPrepend(diar_seg, Tail(trans_segs))
         IN  IF Contributes(Head(trans_segs), diar_seg)
             THEN Append(rest, OverlapEntry(Head(trans_segs), diar_seg))
             ELSE rest

\* The inner loop: overlapping_text after the pass over the transcript
\* segments, in the order of the transcript's list.
RECURSIVE OverlappingText(_, _)
OverlappingText(diar_seg, trans_segs) ==
    IF trans_segs = << >> THEN << >>
    ELSE LET rest == OverlappingText(diar_seg, Tail(trans_segs))
         IN  IF Contributes(Head(trans_segs), diar_seg)
             THEN <<OverlapEntry(Head(trans_segs), diar_seg)>> \o rest
             ELSE rest

\* The segment appended to combined_segments for one diarization segment.
CombinedSegment(diar_seg, trans_segs) ==
    LET overlapping_text == OverlappingText(diar_seg, trans_segs)
        combined_text    == JoinSpace([k \in DOMAIN overlapping_text |->
                                          overlapping_text[k].text])
    IN  [start    |-> diar_seg.start,
         end      |-> diar_seg.end,
         speaker  |-> diar_seg.speaker,
         text     |-> Strip(combined_text),
         duration |-> diar_seg.duration]

\* A faulty variant of CombinedSegments: a turn nothing was said in is left out.
RECURSIVE CombinedSegmentsSkipSilent(_, _)
CombinedSegmentsSkipSilent(diar_segs, trans_segs) ==
    IF diar_segs = << >> THEN << >>
    ELSE LET seg == CombinedSegment(Head(diar_segs), trans_segs)
         IN  (IF seg.text = EmptyText THEN << >> ELSE <<seg>>)
                 \o CombinedSegmentsSkipSilent(Tail(diar_segs), trans_segs)

\* A faulty variant of CombinedSegments: a turn that ends before it starts is
\* left out.
RECURSIVE CombinedSegmentsSkipMalformed(_, _)
CombinedSegmentsSkipMalformed(diar_segs, trans_segs) ==
    IF diar_segs = << >> THEN << >>
    ELSE (IF Head(diar_segs).end < Head(diar_segs).start
          THEN << >>
          ELSE <<CombinedSegment(Head(diar_segs), trans_segs)>>)
             \o CombinedSegmentsSkipMalformed(Tail(diar_segs), trans_segs)

\* A faulty variant of CombinedSegments: the turns are taken in ascending
\* start order, ties in the order of the list.
CombinedSegmentsByStart(diar_segs, trans_segs) ==
    LET Before(k, j) ==
            \/ diar_segs[k].start < diar_segs[j].start
            \/ diar_segs[k].start = diar_segs[j].start /\ k < j
        At(p) == CHOOSE j \in DOMAIN diar_segs :
                    Cardinality({k \in DOMAIN diar_segs : Before(k, j)}) = p - 1
    IN  [p \in DOMAIN diar_segs |-> CombinedSegment(diar_segs[At(p)], trans_segs)]

\* The outer loop: one combined segment per diarization segment, in the
\* order of the diarization's list.
CombinedSegments(diar_segs, trans_segs) ==
    [k \in DOMAIN diar_segs |-> CombinedSegment(diar_segs[k], trans_segs)]

\* The function returns None from its except branch.
NoneResult == [is_none |-> TRUE]

\* A faulty variant of CombineLoaded: an empty segment list is reported as a failure.
CombineLoadedEmptyIsNone(diarization, transcription) ==
    IF diarization.segments = << >> THEN NoneResult
    ELSE [is_none      |-> FALSE,
          file_id      |-> RecordingId,
          duration     |-> diarization.total_duration,
          num_speakers |-> diarization.num_speakers,
          speakers     |-> diarization.speakers,
          language     |-> transcription.language,
          segments     |-> CombinedSegments(diarization.segments, transcription.segments)]

\* A faulty variant of CombineLoaded: the duration is the transcript's.
CombineLoadedTranscriptDuration(diarization, transcription) ==
    [is_none      |-> FALSE,
     file_id      |-> RecordingId,
     duration     |-> transcription.duration,
     num_speakers |-> diarization.num_speakers,
     speakers     |-> diarization.speakers,
     language     |-> transcription.language,
     segments     |-> CombinedSegments(diarization.segments, transcription.segments)]

\* The body of the try block once both files are loaded.
CombineLoaded(diarization, transcription) ==
    [is_none      |-> FALSE,
     file_id      |-> RecordingId,
     duration     |-> diarization.total_duration,
     num_speakers |-> diarization.num_speakers,
     speakers     |-> diarization.speakers,
     language     |-> transcription.language,
     segments     |-> CombinedSegments(diarization.segments, transcription.segments)]

\* The whole function: a file that does not load raises inside the try
\* block, and the except branch returns None.
combine_diarization_transcription(dfile, tfile) ==
    IF dfile.readable /\ tfile.readable
    THEN CombineLoaded(dfile.data, tfile.data)
    ELSE NoneResult

----------------------------------------------------------------------------
(* The metadata store: metadata/dataset_metadata.csv, read whole and       *)
(* written whole by every operation.                                       *)

FileIds == {"c1", "c2"}

Durations == {100, 200}

Languages == {"hindi", "hinglish"}

\* The columns create_metadata_entry gives every row (of its thirteen, the
\* ones an operation of the model reads or writes).
Columns == {"file_id", "filename", "duration_sec", "num_speakers",
            "speaker_roles", "source_type", "language"}

\* A role tag is a sequence of characters, as the texts are: scammer,
\* victim, and a tag that holds the delimiter.
RoleDelimiter == "|"

Scammer == <<"s">>

Victim == <<"v">>

EitherRole == <<"s", RoleDelimiter, "v">>

\* A faulty variant of JoinBar: the delimiter is put after every role, the
\* last one as well.
RECURSIVE JoinBarTrailing(_)
JoinBarTrailing(roles) ==
    IF roles = << >> THEN EmptyText
    ELSE roles[1] \o <<RoleDelimiter>> \o JoinBarTrailing(Tail(roles))

\* '|'.join(speaker_roles)
RECURSIVE JoinBar(_)
JoinBar(roles) ==
    IF roles = << >> THEN EmptyText
    ELSE IF Len(roles) = 1 THEN roles[1]
    ELSE roles[1] \o <<RoleDelimiter>> \o JoinBar(Tail(roles))

\* A rational number num/den, for the quotients pandas returns; den = 0 is
\* NaN, the mean, minimum or maximum of no values.
Ratio(num, den) == [num |-> num, den |-> den]

NaN == Ratio(0, 0)

\* dict.get(key, default)
Get(dict, key, default) == IF key \in DOMAIN dict THEN dict[key] ELSE default

\* The empty dict.
EmptyDict == << >>

\* A faulty variant of create_metadata_entry: a negative duration is stored as 0.
create_metadata_entry_clamped(file_id, filename, duration_sec, num_speakers, speaker_roles, source_type, language) ==
    [file_id       |-> file_id,
     filename      |-> filename,
     duration_sec  |-> IF duration_sec < 0 THEN 0 ELSE duration_sec,
     num_speakers  |-> num_speakers,
     speaker_roles |-> JoinBar(speaker_roles),
     source_type   |-> source_type,
     language      |-> language]

create_metadata_entry(file_id, filename, duration_sec, num_speakers, speaker_roles, source_type, language) ==
    [file_id       |-> file_id,
     filename      |-> filename,
     duration_sec  |-> duration_sec,
     num_speakers  |-> num_speakers,
     speaker_roles |-> JoinBar(speaker_roles),
     source_type   |-> source_type,
     language      |-> language]

\* The columns whose fields are text.
TextColumns == {"file_id", "filename", "source_type", "language"}

\* The empty string, which to_csv writes as an empty field, and NaN in a
\* column of text, which pd.read_csv makes of an empty field and to_csv
\* writes as an empty field again.
EmptyString == ""

MissingText == "nan"

\* The same in the column of the roles, whose fields are sequences of
\* characters.
MissingRoles == <<"n", "a", "n">>

\* pd.read_csv: the rows of the file, each empty text field as NaN.
ReadCsv(rows) ==
    [k \in DOMAIN rows |->
        [c \in DOMAIN rows[k] |->
            IF c \in TextColumns /\ rows[k][c] = EmptyString THEN MissingText
            ELSE IF c = "speaker_roles" /\ rows[k][c] = EmptyText THEN MissingRoles
            ELSE rows[k][c]]]

\* df.to_csv(index=False): the rows of the frame, each NaN as an empty
\* field.
ToCsv(df) ==
    [k \in DOMAIN df |->
        [c \in DOMAIN df[k] |->
            IF c \in TextColumns /\ df[k][c] = MissingText THEN EmptyString
            ELSE IF c = "speaker_roles" /\ df[k][c] = MissingRoles THEN EmptyText
            ELSE df[k][c]]]

\* The file before the first write, and the file to_csv leaves of a frame.
NoFile == [exists |-> FALSE, rows |-> << >>]

CsvFile(rows) == [exists |-> TRUE, rows |-> ToCsv(rows)]

\* pd.read_csv when the file exists, the empty DataFrame otherwise.
LoadFrame(file) == IF file.exists THEN ReadCsv(file.rows) ELSE << >>

\* pd.concat([df, new_row], ignore_index=True)
AddedFrame(df, metadata) == Append(df, metadata)

\* df['file_id'] == file_id
Mask(df, file_id) == {k \in DOMAIN df : df[k].file_id = file_id}

\* df.columns
FrameColumns(df) == IF df = << >> THEN {} ELSE DOMAIN df[1]

\* A faulty variant of UpdatedFrame: the assignment is made without the
\* mask, in every row.
UpdatedFrameEveryRow(df, file_id, updates) ==
    LET applied == DOMAIN updates \cap FrameColumns(df)
    IN  [k \in DOMAIN df |->
            [c \in DOMAIN df[k] |->
                IF c \in applied THEN updates[c] ELSE df[k][c]]]

\* A faulty variant of UpdatedFrame: no test that the key is a column, so
\* that df.loc[mask, key] = value makes a new column of a new key, with
\* NaN in the rows outside the mask.
UpdatedFrameNewColumns(df, file_id, updates) ==
    [k \in DOMAIN df |->
        [c \in DOMAIN df[k] \cup DOMAIN updates |->
            IF k \in Mask(df, file_id) /\ c \in DOMAIN updates THEN updates[c]
            ELSE IF c \in DOMAIN df[k] THEN df[k][c]
            ELSE MissingText]]

\* The loop over updates.items(): each key that is a column of the frame is
\* assigned in every row of the mask; a key that is none is passed over.
UpdatedFrame(df, file_id, updates) ==
    LET applied == DOMAIN updates \cap FrameColumns(df)
    IN  [k \in DOMAIN df |->
            IF k \in Mask(df, file_id)
            THEN [c \in DOMAIN df[k] |->
                     IF c \in applied THEN updates[c] ELSE df[k][c]]
            ELSE df[k]]

\* Series.sum()
RECURSIVE SeriesSum(_)
SeriesSum(values) ==
    IF values = << >> THEN 0 ELSE Head(values) + SeriesSum(Tail(values))

\* Series.min() and Series.max()
SeriesMin(values) ==
    IF values = << >> THEN NaN
    ELSE Ratio(CHOOSE m \in {values[k] : k \in DOMAIN values} :
                  \A k \in DOMAIN values : m <= values[k], 1)

SeriesMax(values) ==
    IF values = << >> THEN NaN
    ELSE Ratio(MaxOf({values[k] : k \in DOMAIN values}), 1)

\* Series.mean()
SeriesMean(values) ==
    IF values = << >> THEN NaN ELSE Ratio(SeriesSum(values), Len(values))

\* Series.isna() at a row: an empty text field was read as NaN.
IsNa(df, column, k) == column \in TextColumns /\ df[k][column] = MissingText

\* df[column].value_counts().to_dict(): the rows whose value is NaN are
\* not counted (dropna is True by default).
ValueCounts(df, column) ==
    LET counted == {k \in DOMAIN df : ~IsNa(df, column, k)}
    IN  [v \in {df[k][column] : k \in counted} |->
            Cardinality({k \in counted : df[k][column] = v})]

\* df[column]
Column(df, column) == [k \in DOMAIN df |-> df[k][column]]

\* The summary dict of a loaded frame.
FrameSummary(df) ==
    [total_conversations      |-> Len(df),
     total_duration_minutes   |-> Ratio(SeriesSum(Column(df, "duration_sec")), 60),
     languages                |-> ValueCounts(df, "language"),
     source_types             |-> ValueCounts(df, "source_type"),
     speaker_counts           |-> ValueCounts(df, "num_speakers"),
     average_duration_seconds |-> SeriesMean(Column(df, "duration_sec")),
     min_duration_seconds     |-> SeriesMin(Column(df, "duration_sec")),
     max_duration_seconds     |-> SeriesMax(Column(df, "duration_sec"))]

\* A faulty variant of get_metadata_summary: the rows are deduplicated by file_id
\* (the first row of each is kept) before they are summarised.
get_metadata_summary_dedup(file) ==
    LET df   == LoadFrame(file)
        keep == {k \in DOMAIN df : \A j \in 1 .. (k - 1) : df[j].file_id # df[k].file_id}
        RECURSIVE Kept(_)
        Kept(k) == IF k > Len(df) THEN << >>
                   ELSE (IF k \in keep THEN <<df[k]>> ELSE << >>) \o Kept(k + 1)
    IN  IF ~file.exists THEN [error |-> "No metadata file found"]
        ELSE FrameSummary(Kept(1))

ErrorSummary == [error |-> "No metadata file found"]

\* A faulty variant of get_metadata_summary: no test that the file exists.
get_metadata_summary_unguarded(file) == FrameSummary(LoadFrame(file))

get_metadata_summary(file) ==
    IF ~file.exists THEN ErrorSummary ELSE FrameSummary(LoadFrame(file))

\* A faulty variant of FinalReport: the log is listed latest entry first.
FinalReportReversedLog(summary, log) ==
    [dataset_info |->
        [total_conversations    |-> Get(summary, "total_conversations", 0),
         total_duration_minutes |-> Get(summary, "total_duration_minutes", Ratio(0, 1)),
         languages              |-> Get(summary, "languages", EmptyDict),
         source_types           |-> Get(summary, "source_types", EmptyDict)],
     processing_log |-> [k \in DOMAIN log |-> log[Len(log) + 1 - k]],
     quality_metrics |->
        [average_duration_seconds |-> Get(summary, "average_duration_seconds", Ratio(0, 1)),
         min_duration_seconds     |-> Get(summary, "min_duration_seconds", Ratio(0, 1)),
         max_duration_seconds     |-> Get(summary, "max_duration_seconds", Ratio(0, 1))]]

\* The report dict of generate_final_report, built from a summary and the
\* pipeline's log (creation_date, the clock's reading, is left out).
FinalReport(summary, log) ==
    [dataset_info |->
        [total_conversations    |-> Get(summary, "total_conversations", 0),
         total_duration_minutes |-> Get(summary, "total_duration_minutes", Ratio(0, 1)),
         languages              |-> Get(summary, "languages", EmptyDict),
         source_types           |-> Get(summary, "source_types", EmptyDict)],
     processing_log |-> log,
     quality_metrics |->
        [average_duration_seconds |-> Get(summary, "average_duration_seconds", Ratio(0, 1)),
         min_duration_seconds     |-> Get(summary, "min_duration_seconds", Ratio(0, 1)),
         max_duration_seconds     |-> Get(summary, "max_duration_seconds", Ratio(0, 1))]]

----------------------------------------------------------------------------
(* The operations on the store, as the pipeline and its callers run them.  *)

\* What an operation left behind: nothing (it returned None after logging
\* success), a logged error (logger.error, then None is returned as well), a
\* summary dict or a report dict.
ReturnedNone == [kind |-> "none"]

LoggedError(message) == [kind |-> "error", message |-> message, returned |-> "None"]

Returned(kind, value) == [kind |-> kind, value |-> value]

NoRow == [none |-> TRUE]

Op(op, file_id, updates, inserted) ==
    [op |-> op, file_id |-> file_id, updates |-> updates, inserted |-> inserted]

\* The entries callers pass to add_metadata_entry: recordings made by hand
\* from the simulated scenarios, two speakers each.
Entries ==
    {create_metadata_entry(f, f \o ".wav", d, 2, <<Scammer, Victim>>, "simulated", l) :
        f \in FileIds, d \in Durations, l \in Languages}

\* An entry whose language the caller left empty (no argument of
\* create_metadata_entry is checked).
UnlabelledEntries ==
    {create_metadata_entry("c2", "c2.wav", 100, 2, <<Scammer, Victim>>,
                           "simulated", EmptyString)}

\* The updates callers pass to update_metadata_entry: a value for any of
\* the columns duration_sec and language.
UpdateKeys == {"duration_sec", "language"}

Updates ==
    {[c \in K |-> IF c = "duration_sec" THEN d ELSE l] :
        K \in SUBSET UpdateKeys, d \in Durations, l \in Languages}

\* Updates that name a field no row has as a column (duration for
\* duration_sec), alone and beside a column.
UnknownColumnUpdates ==
    {[duration |-> 200], [duration |-> 200, language |-> "hinglish"]}

\* What a combined file left by an earlier run holds of a recording.
EarlierCombinedData(file_id) ==
    IF file_id = "c1"
    THEN [duration |-> 100, num_speakers |-> 2, language |-> "hindi"]
    ELSE [duration |-> 200, num_speakers |-> 1, language |-> "hinglish"]

\* json.load of transcripts/combined/<file_id>_combined.json
CombinedData(file_id) == combined_data[file_id]

\* The orders a glob may list a set of files in.
Orders(S) ==
    {order \in [1 .. Cardinality(S) -> S] :
        \A i, j \in DOMAIN order : i # j => order[i] # order[j]}

add_metadata_entry(metadata) ==
    /\ Len(LoadFrame(metadata_file)) < MaxRows
    /\ metadata_file' = CsvFile(AddedFrame(LoadFrame(metadata_file), metadata))
    /\ last_op' = Op("add", metadata.file_id, EmptyDict, metadata)
    /\ result' = ReturnedNone
    /\ UNCHANGED <<processed_dir, combined_dir, alignVars, pipeVars, loopVars, runVars, callVars>>

\* A faulty variant of update_metadata_entry: no test of mask.any(); the frame
\* is written back and success is logged whether a row matched or not.
update_metadata_entry_unchecked(file_id, updates) ==
    /\ last_op' = Op("update", file_id, updates,
                     IF last_op.op = "add" /\ last_op.file_id = file_id
                     THEN last_op.inserted ELSE NoRow)
    /\ IF ~metadata_file.exists
       THEN /\ result' = LoggedError("No metadata file found")
            /\ UNCHANGED metadata_file
       ELSE /\ metadata_file' =
                   CsvFile(UpdatedFrame(LoadFrame(metadata_file), file_id, updates))
            /\ result' = ReturnedNone
    /\ UNCHANGED <<processed_dir, combined_dir, alignVars, pipeVars, loopVars, runVars, callVars>>

update_metadata_entry(file_id, updates) ==
    /\ last_op' = Op("update", file_id, updates,
                     IF last_op.op = "add" /\ last_op.file_id = file_id
                     THEN last_op.inserted ELSE NoRow)
    /\ IF ~metadata_file.exists
       THEN /\ result' = LoggedError("No metadata file found")
            /\ UNCHANGED metadata_file
       ELSE IF Mask(LoadFrame(metadata_file), file_id) # {}
       THEN /\ metadata_file' =
                   CsvFile(UpdatedFrame(LoadFrame(metadata_file), file_id, updates))
            /\ result' = ReturnedNone
       ELSE /\ result' = LoggedError("File ID not found in metadata")
            /\ UNCHANGED metadata_file
    /\ UNCHANGED <<processed_dir, combined_dir, alignVars, pipeVars, loopVars, runVars, callVars>>

\* The entries create_metadata builds: one for each processed wav, in the
\* order of the glob, that has a combined file.
MetadataEntries(order) ==
    [k \in DOMAIN order |->
        create_metadata_entry(order[k], order[k] \o ".wav",
                              CombinedData(order[k]).duration,
                              CombinedData(order[k]).num_speakers,
                              <<Scammer, Victim>>,
                              "public",
                              CombinedData(order[k]).language)]

\* The second loop of create_metadata: add_metadata_entry for each entry.
RECURSIVE AddAll(_, _)
AddAll(file, entries) ==
    IF entries = << >> THEN file
    ELSE AddAll(CsvFile(AddedFrame(LoadFrame(file), Head(entries))), Tail(entries))

create_metadata ==
    \E order \in Orders(processed_dir \cap combined_dir) :
        /\ Len(LoadFrame(metadata_file)) + Len(order) <= MaxRows
        /\ metadata_file' = AddAll(metadata_file, MetadataEntries(order))
        /\ last_op' = Op("create_metadata", "", EmptyDict, NoRow)
        /\ result' = ReturnedNone
        /\ UNCHANGED <<processed_dir, combined_dir, alignVars, pipeVars, loopVars, runVars, callVars>>

GetMetadataSummary ==
    /\ result' = Returned("summary", get_metadata_summary(metadata_file))
    /\ last_op' = Op("summary", "", EmptyDict, NoRow)
    /\ UNCHANGED <<metadata_file, processed_dir, combined_dir, alignVars, pipeVars, loopVars, runVars, callVars>>

generate_final_report ==
    /\ result' = Returned("report", FinalReport(get_metadata_summary(metadata_file),
                                                  processing_log))
    /\ last_op' = Op("report", "", EmptyDict, NoRow)
    /\ UNCHANGED <<metadata_file, processed_dir, combined_dir, alignVars, pipeVars, loopVars, runVars, callVars>>

AddMetadataEntry ==
    \E metadata \in Entries \cup UnlabelledEntries : add_metadata_entry(metadata)

UpdateMetadataEntry ==
    \E file_id \in FileIds, updates \in Updates \cup UnknownColumnUpdates :
        update_metadata_entry(file_id, updates)

----------------------------------------------------------------------------
(* The alignment specification: the two files of one recording are drawn,  *)
(* then combined.                                                          *)

NotRun == [is_none |-> FALSE, not_run |-> TRUE]

\* A directory without files, a log without entries, no call in progress.
EmptyDir == << >>

EmptyLog == << >>

Callers == {"p1", "p2"}

IdleCall == [pc |-> "idle"]

NoCalls == [c \in Callers |-> IdleCall]

NoEntryCall == [called |-> FALSE]

\* No loop in hand.
LoopIdle ==
    /\ diar_pos = 0
    /\ trans_pos = 0
    /\ overlapping = << >>
    /\ combined_segments = << >>
    /\ built_segments = << >>

\* The directories setup.py makes besides audio/raw and metadata, and the
\* one combine_results makes.
SetUpDirs == {"audio/processed", "diarization", "transcripts"}

CombinedDirPath == "transcripts/combined"

\* A project that was set up and holds no recording yet.
RunIdle ==
    /\ raw_dir = {}
    /\ project_dir = SetUpDirs

PipeIdle ==
    /\ diarization_dir = EmptyDir
    /\ transcript_dir = EmptyDir
    /\ processing_log = EmptyLog
    /\ LoopIdle
    /\ RunIdle

CallsIdle ==
    /\ calls = NoCalls
    /\ entry_call = NoEntryCall

StoreIdle ==
    /\ metadata_file = NoFile
    /\ processed_dir = {}
    /\ combined_dir = {}
    /\ last_op = Op("init", "", EmptyDict, NoRow)
    /\ result = ReturnedNone
    /\ combined_data = EmptyDir
    /\ PipeIdle
    /\ CallsIdle

InitAlign ==
    /\ \E n \in 0 .. MaxSegs :
          /\ diarization_file \in DiarizationFiles(n)
          /\ transcription_file \in TranscriptionFiles(MaxSegs - n)
    /\ combined_result = NotRun
    /\ StoreIdle

Combine ==
    /\ combined_result = NotRun
    /\ combined_result' = combine_diarization_transcription(diarization_file,
                                                            transcription_file)
    /\ UNCHANGED <<diarization_file, transcription_file>>
    /\ UNCHANGED <<storeVars, pipeVars, loopVars, runVars, callVars>>

NextAlign == Combine

SpecAlign == InitAlign /\ [][NextAlign]_vars

----------------------------------------------------------------------------
(* The alignment of files whose intervals are not checked: the two JSON    *)
(* files are read as they are, and an interval in them may end before it   *)
(* starts.                                                                 *)

\* A diarization read as it is holds at most MaxAnySegs segments.
MaxAnySegs == 2

\* Any pair of time stamps.
AnyIntervals == Times \X Times

\* The diarization files of at most MaxAnySegs segments over any intervals,
\* and the transcription files of at most one segment.
AnyDiarizationFiles ==
    {ReadableFile(DiarizationResult(segs)) :
        segs \in {[k \in DOMAIN ivs |-> DiarSegment(ivs[k], "SPEAKER_00")] :
                     ivs \in SeqsUpTo(AnyIntervals, MaxAnySegs)}}

AnyTranscriptionFiles ==
    {ReadableFile(TranscriptionResult(segs)) :
        segs \in {[k \in DOMAIN ivs |-> TransSegment(ivs[k], <<Letter(k)>>)] :
                     ivs \in SeqsUpTo(AnyIntervals, 1)}}

InitUnchecked ==
    /\ diarization_file \in AnyDiarizationFiles
    /\ transcription_file \in AnyTranscriptionFiles
    /\ combined_result = NotRun
    /\ StoreIdle

NextUnchecked == Combine

SpecUnchecked == InitUnchecked /\ [][NextUnchecked]_vars

----------------------------------------------------------------------------
(* create_metadata_entry on arguments of any kind: nothing in the manager  *)
(* or the pipeline checks them before the call.                            *)

\* The arguments: a file_id that may be empty, a duration that may be
\* negative.
EntryFileIds == {""} \cup FileIds

EntryDurations == {-1, 0} \cup Durations

EntrySpeakerCounts == {0, 1, 2}

EntrySourceTypes == {"public", "simulated"}

\* A role list holds at most MaxRoles roles.
MaxRoles == 2

RoleTags == {Scammer, Victim, EitherRole}

RoleLists == SeqsUpTo(RoleTags, MaxRoles)

EntryCalls ==
    {[called |-> FALSE, file_id |-> f, duration_sec |-> d, num_speakers |-> n,
      speaker_roles |-> r, source_type |-> st, language |-> l,
      returned |-> ReturnedNone] :
        f \in EntryFileIds, d \in EntryDurations, n \in EntrySpeakerCounts,
        r \in RoleLists, st \in EntrySourceTypes, l \in Languages}

CreateMetadataEntry ==
    /\ "returned" \in DOMAIN entry_call
    /\ ~entry_call.called
    /\ entry_call' =
          [entry_call EXCEPT
              !.called = TRUE,
              !.returned = Returned("entry",
                               create_metadata_entry(entry_call.file_id,
                                                     entry_call.file_id \o ".wav",
                                                     entry_call.duration_sec,
                                                     entry_call.num_speakers,
                                                     entry_call.speaker_roles,
                                                     entry_call.source_type,
                                                     entry_call.language))]
    /\ UNCHANGED <<storeVars, alignVars, pipeVars, loopVars, runVars, calls>>

InitEntry ==
    /\ entry_call \in EntryCalls
    /\ calls = NoCalls
    /\ metadata_file = NoFile
    /\ processed_dir = {}
    /\ combined_dir = {}
    /\ last_op = Op("init", "", EmptyDict, NoRow)
    /\ result = ReturnedNone
    /\ combined_data = EmptyDir
    /\ PipeIdle
    /\ diarization_file = UnreadableFile
    /\ transcription_file = UnreadableFile
    /\ combined_result = NotRun

NextEntry == CreateMetadataEntry

SpecEntry == InitEntry /\ [][NextEntry]_vars

----------------------------------------------------------------------------
(* The store specification: the processed audio and the combined results   *)
(* are on disk, no metadata file is; the metadata operations run in any    *)
(* order.                                                                  *)

Init ==
    /\ processed_dir \in SUBSET FileIds
    /\ combined_dir \in SUBSET processed_dir
    /\ metadata_file = NoFile
    /\ last_op = Op("init", "", EmptyDict, NoRow)
    /\ result = ReturnedNone
    /\ diarization_file = UnreadableFile
    /\ transcription_file = UnreadableFile
    /\ combined_result = NotRun
    /\ combined_data = [f \in combined_dir |-> EarlierCombinedData(f)]
    /\ PipeIdle
    /\ CallsIdle

Next ==
    \/ AddMetadataEntry
    \/ UpdateMetadataEntry
    \/ create_metadata
    \/ GetMetadataSummary
    \/ generate_final_report

Spec == Init /\ [][Next]_vars

----------------------------------------------------------------------------
(* The store under callers that run at the same time.  The manager takes   *)
(* no lock, so a call is the sequence of its file operations: the read of  *)
(* the CSV file, the open for writing of to_csv, which truncates the file, *)
(* and the flush of the rows when to_csv closes it.  Each caller makes one *)
(* call; summaries are taken at any moment.                                *)

\* The file between the open and the close of to_csv: it exists and holds
\* no bytes.
TruncatedFile == [exists |-> TRUE, rows |-> << >>, truncated |-> TRUE]

IsTruncated(file) == "truncated" \in DOMAIN file

\* pd.read_csv of a file without bytes raises EmptyDataError.
Raised(exception) == [kind |-> "raised", exception |-> exception]

\* The file a whole add_metadata_entry leaves, and a whole
\* update_metadata_entry.
AddedFile(file, metadata) == CsvFile(AddedFrame(LoadFrame(file), metadata))

UpdatedFile(file, file_id, updates) ==
    IF file.exists /\ Mask(LoadFrame(file), file_id) # {}
    THEN CsvFile(UpdatedFrame(LoadFrame(file), file_id, updates))
    ELSE file

\* The calls the callers make: an entry in Hindi is added, or the language
\* or the duration of a recording is updated.
ConcurrentAdds == {e \in Entries : e.language = "hindi"}

ConcurrentUpdates == {[language |-> "hinglish"], [duration_sec |-> 200]}

\* The stores the callers find.
ConcurrentStores == {NoFile} \cup {CsvFile(<<e>>) : e \in ConcurrentAdds}

\* A call in progress: its arguments, the file it read, the frame it holds,
\* whether it began while no other call ran, and the file it left.
Call(pc, op, seen, df, first, written, wrote) ==
    [pc |-> pc, op |-> op, seen |-> seen, df |-> df, first |-> first,
     written |-> written, wrote |-> wrote]

NoOtherCall(p) == \A q \in Callers \ {p} : calls[q].pc = "idle"

\* add_metadata_entry up to the concat: the file is read, the row appended
\* to the frame.
BeginAdd ==
    \E p \in Callers, metadata \in ConcurrentAdds :
        /\ calls[p].pc = "idle"
        /\ Len(LoadFrame(metadata_file)) < MaxRows
        /\ calls' = [calls EXCEPT ![p] =
              IF IsTruncated(metadata_file)
              THEN Call("raised", Op("add", metadata.file_id, EmptyDict, metadata),
                        metadata_file, << >>, FALSE, FALSE, metadata_file)
              ELSE Call("loaded", Op("add", metadata.file_id, EmptyDict, metadata),
                        metadata_file,
                        AddedFrame(LoadFrame(metadata_file), metadata),
                        NoOtherCall(p), FALSE, metadata_file)]
        /\ UNCHANGED <<storeVars, alignVars, pipeVars, loopVars, runVars, entry_call>>

\* update_metadata_entry up to the loop over the updates: the file is read
\* and the frame updated; without a file or a matching row the call ends
\* with its error logged.
BeginUpdate ==
    \E p \in Callers, file_id \in FileIds, updates \in ConcurrentUpdates :
        /\ calls[p].pc = "idle"
        /\ calls' = [calls EXCEPT ![p] =
              IF IsTruncated(metadata_file)
              THEN Call("raised", Op("update", file_id, updates, NoRow),
                        metadata_file, << >>, FALSE, FALSE, metadata_file)
              ELSE IF metadata_file.exists /\ Mask(LoadFrame(metadata_file), file_id) # {}
              THEN Call("loaded", Op("update", file_id, updates, NoRow),
                        metadata_file,
                        UpdatedFrame(LoadFrame(metadata_file), file_id, updates),
                        NoOtherCall(p), FALSE, metadata_file)
              ELSE Call("done", Op("update", file_id, updates, NoRow),
                        metadata_file, LoadFrame(metadata_file),
                        NoOtherCall(p), FALSE, metadata_file)]
        /\ UNCHANGED <<storeVars, alignVars, pipeVars, loopVars, runVars, entry_call>>

\* df.to_csv opens the file for writing: the file is truncated.
OpenForWrite ==
    \E p \in Callers :
        /\ calls[p].pc = "loaded"
        /\ metadata_file' = TruncatedFile
        /\ calls' = [calls EXCEPT ![p].pc = "writing"]
        /\ UNCHANGED <<processed_dir, combined_dir, last_op, result,
                       alignVars, pipeVars, loopVars, runVars, entry_call>>

\* The rows a close leaves when another writer's rows are in the file: its
\* own rows from the start of the file, and what the other wrote beyond
\* them (neither writer truncates again).
Overlaid(df, rows) ==
    IF Len(rows) > Len(df) THEN df \o SubSeq(rows, Len(df) + 1, Len(rows)) ELSE df

\* df.to_csv closes the file: the rows of the caller's frame are flushed.
FinishWrite ==
    \E p \in Callers :
        /\ calls[p].pc = "writing"
        /\ \E rows \in {calls[p].df, Overlaid(calls[p].df, metadata_file.rows)} :
              /\ metadata_file' = CsvFile(rows)
              /\ calls' = [calls EXCEPT ![p].pc = "done",
                                        ![p].written = TRUE,
                                        ![p].wrote = CsvFile(rows)]
        /\ UNCHANGED <<processed_dir, combined_dir, last_op, result,
                       alignVars, pipeVars, loopVars, runVars, entry_call>>

\* get_metadata_summary at any moment of the other calls.
ConcurrentSummary ==
    /\ result' = IF IsTruncated(metadata_file)
                 THEN Raised("EmptyDataError")
                 ELSE Returned("summary", get_metadata_summary(metadata_file))
    /\ last_op' = Op("summary", "", EmptyDict, NoRow)
    /\ UNCHANGED <<metadata_file, processed_dir, combined_dir, alignVars, pipeVars, loopVars, runVars, callVars>>

InitConcurrent ==
    /\ metadata_file \in ConcurrentStores
    /\ processed_dir = {}
    /\ combined_dir = {}
    /\ last_op = Op("init", "", EmptyDict, NoRow)
    /\ result = ReturnedNone
    /\ diarization_file = UnreadableFile
    /\ transcription_file = UnreadableFile
    /\ combined_result = NotRun
    /\ combined_data = EmptyDir
    /\ PipeIdle
    /\ CallsIdle

NextConcurrent ==
    \/ BeginAdd
    \/ BeginUpdate
    \/ OpenForWrite
    \/ FinishWrite
    \/ ConcurrentSummary

SpecConcurrent == InitConcurrent /\ [][NextConcurrent]_vars

----------------------------------------------------------------------------
(* The batch: the diarization and the transcript files of the recordings   *)
(* are on disk; combine_results combines them, create_metadata makes the   *)
(* rows of the combined recordings, generate_final_report reports.         *)

\* A diarization of the batch holds at most MaxPipeSegs segments.
MaxPipeSegs == 2
\* The pipeline's log holds at most MaxLog entries.
MaxLog == 3

\* The turns of a batch recording: one second each.
PipeIntervals == {<<k, k + 1>> : k \in 0 .. (MaxTime - 1)}

\* The diarization files a recording of the batch may have, and its
\* transcript files: one segment over the whole recording, or none.
PipeDiarizations ==
    {ReadableFile(DiarizationResult(segs)) :
        segs \in {[k \in DOMAIN ivs |-> DiarSegment(ivs[k][1], ivs[k][2])] :
                     ivs \in SeqsUpTo(PipeIntervals \X Speakers, MaxPipeSegs)}}
    \cup {UnreadableFile}

PipeTranscriptions ==
    {ReadableFile(TranscriptionResult(<< >>)),
     ReadableFile(TranscriptionResult(<<TransSegment(<<0, MaxTime>>, <<Letter(1)>>)>>)),
     UnreadableFile}

\* The second recording of the batch: one turn and one segment that says
\* another letter, files that do not load, or a file that is not there.
OtherDiarization ==
    ReadableFile(DiarizationResult(<<DiarSegment(<<0, 1>>, "SPEAKER_01")>>))

OtherTranscription ==
    ReadableFile(TranscriptionResult(<<TransSegment(<<0, 1>>, <<Letter(2)>>)>>))

\* A directory that holds the files given for the file_ids given.
Dir(ids, files) == [f \in ids |-> files[f]]

\* The entry a phase appends to processing_log (its timestamp, the clock's
\* reading, is left out).
LogEntry(phase, action, count) == [phase |-> phase, action |-> action, count |-> count]

\* The logs the earlier phases leave.
UpstreamLogs ==
    LET d == LogEntry("diarization", "speaker_diarization", Cardinality(FileIds))
        t == LogEntry("transcription", "speech_recognition", Cardinality(FileIds))
    IN  {EmptyLog, <<d>>, <<d, t>>, <<t, d>>}

\* dict[key] = value
Put(dict, key, value) ==
    [k \in DOMAIN dict \cup {key} |-> IF k = key THEN value ELSE dict[k]]

\* combine_diarization_transcription on the two files of a recording: the
\* file_id of the result is the stem of the diarization file's name.
CombineRecording(file_id, dfile, tfile) ==
    LET combined == combine_diarization_transcription(dfile, tfile)
    IN  IF combined.is_none THEN combined
        ELSE [combined EXCEPT !.file_id = file_id]

\* A faulty variant of CombinedOne: the transcript of whichever recording
\* was transcribed first is used for every recording.
CombinedOneShared(acc, file_id) ==
    IF file_id \in DOMAIN transcript_dir
    THEN LET shared   == CHOOSE g \in DOMAIN transcript_dir :
                            \A h \in DOMAIN transcript_dir : g = h \/ g = "c1"
             combined == CombineRecording(file_id, diarization_dir[file_id],
                                          transcript_dir[shared])
         IN  IF ~combined.is_none
             THEN [dir   |-> acc.dir \cup {file_id},
                   data  |-> Put(acc.data, file_id, combined),
                   count |-> acc.count + 1]
             ELSE acc
    ELSE acc

\* The body of the loop of combine_results for one diarization file: the
\* recording is combined when its transcript file exists, and saved when
\* the result is not None.
CombinedOne(acc, file_id) ==
    IF file_id \in DOMAIN transcript_dir
    THEN LET combined == CombineRecording(file_id, diarization_dir[file_id],
                                          transcript_dir[file_id])
         IN  IF ~combined.is_none
             THEN [dir   |-> acc.dir \cup {file_id},
                   data  |-> Put(acc.data, file_id, combined),
                   count |-> acc.count + 1]
             ELSE acc
    ELSE acc

\* A faulty variant of CombinedAll: the loop ends at the first recording
\* that is not combined.
RECURSIVE CombinedAllAborting(_, _)
CombinedAllAborting(order, acc) ==
    IF order = << >> THEN acc
    ELSE IF CombinedOne(acc, Head(order)) = acc THEN acc
    ELSE CombinedAllAborting(Tail(order), CombinedOne(acc, Head(order)))

\* The loop of combine_results over the diarization files in the order of
\* the glob.
RECURSIVE CombinedAll(_, _)
CombinedAll(order, acc) ==
    IF order = << >> THEN acc
    ELSE CombinedAll(Tail(order), CombinedOne(acc, Head(order)))

\* A faulty variant of LogAppended: the entry is put before the others.
LogPrepended(log, entry) == <<entry>> \o log

\* self.processing_log.append(entry)
LogAppended(log, entry) == Append(log, entry)

\* combine_results: combined_dir.mkdir(exist_ok=True) makes the directory
\* under transcripts and raises FileNotFoundError when transcripts is not
\* there; then the loop, then the entry of the phase.
combine_results ==
    IF "transcripts" \notin project_dir
    THEN /\ last_op' = Op("combine_results", "", EmptyDict, NoRow)
         /\ result' = Raised("FileNotFoundError")
         /\ UNCHANGED <<metadata_file, processed_dir, combined_dir, alignVars,
                        pipeVars, callVars, loopVars, runVars>>
    ELSE \E order \in Orders(DOMAIN diarization_dir) :
        LET done == CombinedAll(order, [dir |-> combined_dir, data |-> combined_data,
                                        count |-> 0])
        IN  /\ combined_dir' = done.dir
            /\ combined_data' = done.data
            /\ processing_log' = LogAppended(processing_log,
                                        LogEntry("combination", "combine_results", done.count))
            /\ project_dir' = project_dir \cup {CombinedDirPath}
            /\ last_op' = Op("combine_results", "", EmptyDict, NoRow)
            /\ result' = ReturnedNone
            /\ UNCHANGED <<metadata_file, processed_dir, raw_dir, loopVars,
                           diarization_dir, transcript_dir, alignVars, callVars>>

InitPipe ==
    /\ \E ids \in SUBSET FileIds, d1 \in PipeDiarizations,
             d2 \in {OtherDiarization, UnreadableFile} :
          diarization_dir = Dir(ids, [c1 |-> d1, c2 |-> d2])
    /\ \E ids \in {FileIds, {"c1"}, {"c2"}}, t1 \in PipeTranscriptions :
          transcript_dir = Dir(ids, [c1 |-> t1, c2 |-> OtherTranscription])
    /\ processing_log \in UpstreamLogs
    /\ processed_dir = FileIds
    /\ combined_dir = {}
    /\ combined_data = EmptyDir
    /\ metadata_file = NoFile
    /\ last_op = Op("init", "", EmptyDict, NoRow)
    /\ result = ReturnedNone
    /\ diarization_file = UnreadableFile
    /\ transcription_file = UnreadableFile
    /\ combined_result = NotRun
    /\ CallsIdle
    /\ LoopIdle
    /\ RunIdle

\* combine_results, run again while the log has room.
PipeCombineResults ==
    /\ Len(processing_log) < MaxLog
    /\ combine_results

NextPipe ==
    \/ PipeCombineResults
    \/ create_metadata
    \/ generate_final_report

SpecPipe == InitPipe /\ [][NextPipe]_vars

----------------------------------------------------------------------------
(* The run specification: run_full_pipeline on a project directory that    *)
(* was set up or not and holds some raw recordings or none.  The phases    *)
(* run in the order of the method; an exception ends the run.              *)

\* The search finds at most MaxUrls videos.
MaxUrls == 2

\* len(scenarios) of create_simulated_scenarios
ScenarioCount == 4

BatchMetadataPath == "audio/processed/batch_metadata.json"

\* not dir.exists() or not any(dir.iterdir()) for audio/processed, which
\* holds the normalized recordings and the batch metadata.
ProcessedDirEmpty ==
    \/ "audio/processed" \notin project_dir
    \/ (processed_dir = {} /\ BatchMetadataPath \notin project_dir)

\* The directory with the files given written over it.
Written(dir, ids, file) ==
    [f \in DOMAIN dir \cup ids |-> IF f \in ids THEN file ELSE dir[f]]

\* collect_data: the entry of the scenarios, the search, the entry of the
\* downloads when the search found a video.  results counts the downloads
\* that succeeded or failed, downloaded are the recordings that arrived.
collect_data(search_youtube, create_scenarios, urls, results, downloaded) ==
    LET scenarios_logged ==
            IF create_scenarios
            THEN LogAppended(processing_log,
                             LogEntry("data_collection", "create_scenarios", ScenarioCount))
            ELSE processing_log
        searched == search_youtube /\ urls > 0
    IN  /\ processing_log' =
              IF searched
              THEN LogAppended(scenarios_logged,
                               LogEntry("data_collection", "download_youtube", results))
              ELSE scenarios_logged
        /\ raw_dir' = IF searched THEN raw_dir \cup downloaded ELSE raw_dir
        /\ last_op' = Op("collect_data", "", EmptyDict, NoRow)
        /\ result' = ReturnedNone
        /\ UNCHANGED <<metadata_file, processed_dir, combined_dir, alignVars,
                       diarization_dir, transcript_dir, combined_data,
                       callVars, loopVars, project_dir>>

\* process_audio: nothing without a file in audio/raw; else batch_process
\* writes the recordings it could normalize and the batch metadata.
process_audio(normalized) ==
    IF raw_dir = {}
    THEN /\ last_op' = Op("process_audio", "", EmptyDict, NoRow)
         /\ result' = ReturnedNone
         /\ UNCHANGED <<metadata_file, processed_dir, combined_dir, alignVars,
                        pipeVars, callVars, loopVars, runVars>>
    ELSE /\ processed_dir' = processed_dir \cup normalized
         /\ project_dir' = project_dir \cup {"audio/processed", BatchMetadataPath}
         /\ processing_log' =
               LogAppended(processing_log,
                           LogEntry("audio_processing", "normalize_audio",
                                    Cardinality(normalized)))
         /\ last_op' = Op("process_audio", "", EmptyDict, NoRow)
         /\ result' = ReturnedNone
         /\ UNCHANGED <<metadata_file, combined_dir, alignVars,
                        diarization_dir, transcript_dir, combined_data,
                        callVars, loopVars, raw_dir>>

\* perform_diarization: nothing without an entry in audio/processed; else
\* batch_diarize writes a file for each recording it could diarize.
perform_diarization(diarized) ==
    IF ProcessedDirEmpty
    THEN /\ last_op' = Op("perform_diarization", "", EmptyDict, NoRow)
         /\ result' = ReturnedNone
         /\ UNCHANGED <<metadata_file, processed_dir, combined_dir, alignVars,
                        pipeVars, callVars, loopVars, runVars>>
    ELSE /\ diarization_dir' = Written(diarization_dir, diarized, OtherDiarization)
         /\ project_dir' = project_dir \cup {"diarization"}
         /\ processing_log' =
               LogAppended(processing_log,
                           LogEntry("diarization", "speaker_diarization",
                                    Cardinality(diarized)))
         /\ last_op' = Op("perform_diarization", "", EmptyDict, NoRow)
         /\ result' = ReturnedNone
         /\ UNCHANGED <<metadata_file, processed_dir, combined_dir, alignVars,
                        transcript_dir, combined_data, callVars, loopVars, raw_dir>>

\* perform_transcription: nothing without an entry in audio/processed; else
\* batch_transcribe writes a file for each recording it could transcribe.
perform_transcription(transcribed) ==
    IF ProcessedDirEmpty
    THEN /\ last_op' = Op("perform_transcription", "", EmptyDict, NoRow)
         /\ result' = ReturnedNone
         /\ UNCHANGED <<metadata_file, processed_dir, combined_dir, alignVars,
                        pipeVars, callVars, loopVars, runVars>>
    ELSE /\ transcript_dir' = Written(transcript_dir, transcribed, OtherTranscription)
         /\ project_dir' = project_dir \cup {"transcripts"}
         /\ processing_log' =
               LogAppended(processing_log,
                           LogEntry("transcription", "speech_recognition",
                                    Cardinality(transcribed)))
         /\ last_op' = Op("perform_transcription", "", EmptyDict, NoRow)
         /\ result' = ReturnedNone
         /\ UNCHANGED <<metadata_file, processed_dir, combined_dir, alignVars,
                        diarization_dir, combined_data, callVars, loopVars, raw_dir>>

\* annotate_speaker_roles writes the annotation guide and nothing else.
annotate_speaker_roles ==
    /\ last_op' = Op("annotate_speaker_roles", "", EmptyDict, NoRow)
    /\ result' = ReturnedNone
    /\ UNCHANGED <<metadata_file, processed_dir, combined_dir, alignVars,
                   pipeVars, callVars, loopVars, runVars>>

\* The phase before has returned: run_full_pipeline goes on to the next.
PhaseDone(op) == last_op.op = op /\ result.kind # "raised"

RunCollectData ==
    /\ PhaseDone("init")
    /\ \E search_youtube, create_scenarios \in BOOLEAN, urls \in 0 .. MaxUrls :
          \E results \in 0 .. urls, downloaded \in SUBSET FileIds :
              /\ Cardinality(downloaded) <= results
              /\ collect_data(search_youtube, create_scenarios, urls, results, downloaded)

RunProcessAudio ==
    /\ PhaseDone("collect_data")
    /\ \E normalized \in SUBSET raw_dir : process_audio(normalized)

RunDiarization ==
    /\ PhaseDone("process_audio")
    /\ \E diarized \in SUBSET processed_dir : perform_diarization(diarized)

RunTranscription ==
    /\ PhaseDone("perform_diarization")
    /\ \E transcribed \in SUBSET processed_dir : perform_transcription(transcribed)

RunCombineResults ==
    /\ PhaseDone("perform_transcription")
    /\ combine_results

RunAnnotation ==
    /\ PhaseDone("combine_results")
    /\ annotate_speaker_roles

RunCreateMetadata ==
    /\ PhaseDone("annotate_speaker_roles")
    /\ create_metadata

RunFinalReport ==
    /\ PhaseDone("create_metadata")
    /\ generate_final_report

\* A pipeline object was just made: its log is empty, audio/raw is there
\* with the recordings put into it by hand, the other directories are
\* there when setup.py ran.
InitRun ==
    /\ raw_dir \in SUBSET FileIds
    /\ project_dir \in {{}, SetUpDirs}
    /\ processing_log = EmptyLog
    /\ diarization_dir = EmptyDir
    /\ transcript_dir = EmptyDir
    /\ processed_dir = {}
    /\ combined_dir = {}
    /\ combined_data = EmptyDir
    /\ metadata_file = NoFile
    /\ last_op = Op("init", "", EmptyDict, NoRow)
    /\ result = ReturnedNone
    /\ diarization_file = UnreadableFile
    /\ transcription_file = UnreadableFile
    /\ combined_result = NotRun
    /\ CallsIdle
    /\ LoopIdle

NextRun ==
    \/ RunCollectData
    \/ RunProcessAudio
    \/ RunDiarization
    \/ RunTranscription
    \/ RunCombineResults
    \/ RunAnnotation
    \/ RunCreateMetadata
    \/ RunFinalReport

SpecRun == InitRun /\ [][NextRun]_vars

----------------------------------------------------------------------------
(* The insertion specification: transcribe_with_timestamps builds the list *)
(* of a recording's segments, one append for each segment the recogniser   *)
(* hands over, and the result holding the list is written to the           *)
(* recording's transcript file.                                            *)

\* The recogniser hands over at most MaxInserts segments.
MaxInserts == 3

\* A faulty variant of AppendedSegment: the segment is put at its place by
\* start, behind the segments that start no later.
InsertedByStart(segs, seg) ==
    LET at == Cardinality({k \in DOMAIN segs : segs[k].start <= seg.start})
    IN  SubSeq(segs, 1, at) \o <<seg>> \o SubSeq(segs, at + 1, Len(segs))

\* segments.append({...})
AppendedSegment(segs, seg) == Append(segs, seg)

\* The body of the loop over result["segments"]: the next segment of the
\* recogniser, whatever its times, is appended; its text tells the
\* segments apart.
AppendSegment ==
    \E iv \in Intervals :
        LET segment == TransSegment(iv, <<Letter(Len(built_segments) + 1)>>)
        IN  /\ ~transcription_file.readable
            /\ Len(built_segments) < MaxInserts
            /\ built_segments' = AppendedSegment(built_segments, segment)
            /\ last_op' = Op("append_segment", "", EmptyDict, segment)
            /\ UNCHANGED <<metadata_file, processed_dir, combined_dir, result,
                           alignVars, pipeVars, callVars, runVars,
                           diar_pos, trans_pos, overlapping, combined_segments>>

\* The loop is over: the result is built and save_transcript writes it.
ReturnTranscription ==
    /\ ~transcription_file.readable
    /\ transcription_file' = ReadableFile(TranscriptionResult(built_segments))
    /\ last_op' = Op("transcribe", "", EmptyDict, NoRow)
    /\ UNCHANGED <<metadata_file, processed_dir, combined_dir, result,
                   diarization_file, combined_result,
                   pipeVars, callVars, runVars, loopVars>>

InitInsert ==
    /\ diarization_file = UnreadableFile
    /\ transcription_file = UnreadableFile
    /\ combined_result = NotRun
    /\ StoreIdle

NextInsert ==
    \/ AppendSegment
    \/ ReturnTranscription

SpecInsert == InitInsert /\ [][NextInsert]_vars

----------------------------------------------------------------------------
(* The scan specification: the two loops of                                *)
(* combine_diarization_transcription taken one step at a time.  diar_pos   *)
(* is the place of diar_seg in the diarization's list, trans_pos the       *)
(* number of segments of the transcript's list the inner loop has tested   *)
(* for it.                                                                 *)

\* The two lists hold at most MaxScanSegs segments between them.
MaxScanSegs == 3

\* The lists of at most n intervals.
ScanIntervals(n) == SeqsUpTo(Intervals, n)

ScanDiarization(ivs) ==
    ReadableFile(DiarizationResult([k \in DOMAIN ivs |-> DiarSegment(ivs[k], "SPEAKER_00")]))

ScanTranscription(ivs) ==
    ReadableFile(TranscriptionResult([k \in DOMAIN ivs |-> TransSegment(ivs[k], <<Letter(k)>>)]))

\* A faulty variant of FirstTested: the inner loop goes on where the one
\* before it stopped.
CursorKept(tested) == tested

\* for trans_seg in transcription["segments"]: the inner loop starts over
\* at the head of the list, whatever was tested before.
FirstTested(tested) == 0

\* The segment appended to combined_segments from the overlapping_text the
\* inner loop has gathered.
CombinedFrom(diar_seg, entries) ==
    [start    |-> diar_seg.start,
     end      |-> diar_seg.end,
     speaker  |-> diar_seg.speaker,
     text     |-> Strip(JoinSpace([k \in DOMAIN entries |-> entries[k].text])),
     duration |-> diar_seg.duration]

\* The inner loop is over for the diar_seg in hand, or none is in hand.
BetweenQueries == Len(combined_segments) = diar_pos

\* for diar_seg in diarization["segments"]: overlapping_text = []
NextDiarSegment ==
    /\ combined_result = NotRun
    /\ BetweenQueries
    /\ diar_pos < Len(diarization_file.data.segments)
    /\ diar_pos' = diar_pos + 1
    /\ overlapping' = << >>
    /\ trans_pos' = FirstTested(trans_pos)
    /\ last_op' = Op("next_diar_seg", "", EmptyDict, NoRow)
    /\ UNCHANGED <<metadata_file, processed_dir, combined_dir, result, alignVars,
                   pipeVars, callVars, runVars, combined_segments, built_segments>>

\* The body of the inner loop for the next trans_seg.
TestTransSegment ==
    /\ ~BetweenQueries
    /\ trans_pos < Len(transcription_file.data.segments)
    /\ LET diar_seg  == diarization_file.data.segments[diar_pos]
           trans_seg == transcription_file.data.segments[trans_pos + 1]
       IN  overlapping' = IF Contributes(trans_seg, diar_seg)
                          THEN Append(overlapping, OverlapEntry(trans_seg, diar_seg))
                          ELSE overlapping
    /\ trans_pos' = trans_pos + 1
    /\ last_op' = Op("test_trans_seg", "", EmptyDict, NoRow)
    /\ UNCHANGED <<metadata_file, processed_dir, combined_dir, result, alignVars,
                   pipeVars, callVars, runVars, diar_pos, combined_segments,
                   built_segments>>

\* The inner loop is over: combined_text, combined_segments.append({...})
AppendCombined ==
    /\ ~BetweenQueries
    /\ trans_pos = Len(transcription_file.data.segments)
    /\ combined_segments' =
          Append(combined_segments,
                 CombinedFrom(diarization_file.data.segments[diar_pos], overlapping))
    /\ last_op' = Op("append_combined", "", EmptyDict, NoRow)
    /\ UNCHANGED <<metadata_file, processed_dir, combined_dir, result, alignVars,
                   pipeVars, callVars, runVars, diar_pos, trans_pos, overlapping,
                   built_segments>>

\* The outer loop is over: combined_result is built and returned.
ReturnCombined ==
    /\ combined_result = NotRun
    /\ BetweenQueries
    /\ diar_pos = Len(diarization_file.data.segments)
    /\ combined_result' =
          [CombineLoaded(diarization_file.data, transcription_file.data)
              EXCEPT !.segments = combined_segments]
    /\ last_op' = Op("return_combined", "", EmptyDict, NoRow)
    /\ UNCHANGED <<metadata_file, processed_dir, combined_dir, result,
                   diarization_file, transcription_file,
                   pipeVars, callVars, runVars, loopVars>>

\* Both files were loaded; the lists are as the recognisers left them, in
\* any order and overlapping.
InitScan ==
    /\ \E n \in 0 .. MaxScanSegs :
          /\ diarization_file \in {ScanDiarization(ivs) : ivs \in ScanIntervals(n)}
          /\ transcription_file \in
                {ScanTranscription(ivs) : ivs \in ScanIntervals(MaxScanSegs - n)}
    /\ combined_result = NotRun
    /\ StoreIdle

NextScan ==
    \/ NextDiarSegment
    \/ TestTransSegment
    \/ AppendCombined
    \/ ReturnCombined

SpecScan == InitScan /\ [][NextScan]_vars

----------------------------------------------------------------------------
(* What the claims about the alignment read.                               *)

\* The segments of the two inputs and of the result.
D == diarization_file.data.segments

T == transcription_file.data.segments

Aligned == combined_result.segments

\* The function has run on two files that load.
Ran == combined_result # NotRun

Loaded == diarization_file.readable /\ transcription_file.readable

Succeeded == Ran /\ Loaded /\ ~combined_result.is_none

\* min(d.end, t.end) - max(d.start, t.start) > 0
PositiveOverlap(d, t) ==
    (IF d.end <= t.end THEN d.end ELSE t.end)
        - (IF d.start >= t.start THEN d.start ELSE t.start) > 0

\* The character occurs in the text.
Occurs(char, text) == \E k \in DOMAIN text : text[k] = char

\* The transcript segments that have a positive overlap with D[i].
ContributingSet(i) == {j \in DOMAIN T : PositiveOverlap(D[i], T[j])}

\* A set of transcript positions listed in the order of the transcript's
\* list, and listed by ascending start with ties in the order of the list.
InputOrder(S) ==
    [p \in 1 .. Cardinality(S) |->
        CHOOSE j \in S : Cardinality({k \in S : k < j}) = p - 1]

StartsBefore(k, j) ==
    \/ T[k].start < T[j].start
    \/ T[k].start = T[j].start /\ k < j

StartOrder(S) ==
    [p \in 1 .. Cardinality(S) |->
        CHOOSE j \in S : Cardinality({k \in S : StartsBefore(k, j)}) = p - 1]

\* The texts of the listed segments with one space between neighbours.
RECURSIVE SpacedTexts(_)
SpacedTexts(order) ==
    IF Len(order) = 0 THEN << >>
    ELSE IF Len(order) = 1 THEN T[order[1]].text
    ELSE SpacedTexts(SubSeq(order, 1, Len(order) - 1))
            \o <<" ">> \o T[order[Len(order)]].text

\* A text without its leading and trailing spaces.
Trimmed(text) ==
    LET inked == {k \in DOMAIN text : text[k] # " "}
    IN  IF inked = {} THEN << >>
        ELSE SubSeq(text, CHOOSE k \in inked : \A m \in inked : k <= m,
                          CHOOSE k \in inked : \A m \in inked : k >= m)

\* The transcript is given in ascending start order.
StartSorted == \A k, j \in DOMAIN T : k < j => T[k].start <= T[j].start

----------------------------------------------------------------------------
(* Claims about the alignment, checked under SpecAlign.                    *)

\* C5: whenever the two inputs load, the result holds exactly as many
\* aligned segments as the diarization holds segments (none for an empty
\* diarization), whatever the transcript is.
C5_OneSegmentPerTurn ==
    (Ran /\ Loaded) =>
        /\ ~combined_result.is_none
        /\ Len(Aligned) = Len(D)

\* C5 witness: two turns and one transcript segment gave two aligned segments.
C5_Witness ==
    /\ Succeeded
    /\ Len(D) = 2
    /\ \A i \in DOMAIN D : D[i].start < D[i].end
    /\ Len(T) = 1
    /\ Len(Aligned) = 2

\* C6: the text of a transcript segment t is in the aligned segment of a
\* turn d exactly when min(d.end, t.end) - max(d.start, t.start) > 0 (a
\* segment that says nothing leaves no trace in the text and is passed over).
C6_ContributesIffPositiveOverlap ==
    Succeeded =>
        \A i \in DOMAIN D \cap DOMAIN Aligned, j \in DOMAIN T :
            T[j].text # EmptyText =>
                (Occurs(Letter(j), Aligned[i].text) <=> PositiveOverlap(D[i], T[j]))

\* C6 witness: a turn that one transcript segment ends at the start of, and
\* that another lies in; only the second is in the turn's text.
C6_Witness ==
    /\ Succeeded
    /\ \E i \in DOMAIN D, j, k \in DOMAIN T :
          /\ T[j].text # EmptyText
          /\ T[k].text # EmptyText
          /\ T[j].start < T[j].end
          /\ T[j].end = D[i].start
          /\ ~Occurs(Letter(j), Aligned[i].text)
          /\ T[k].start >= D[i].start
          /\ T[k].end <= D[i].end
          /\ Occurs(Letter(k), Aligned[i].text)

\* C7 as stated: a turn no transcript segment overlaps yields an aligned
\* segment with the empty text and a source_count of 0.
C7_Original ==
    Succeeded =>
        \A i \in DOMAIN D \cap DOMAIN Aligned :
            ContributingSet(i) = {} =>
                /\ "text" \in DOMAIN Aligned[i]
                /\ Aligned[i].text = EmptyText
                /\ "source_count" \in DOMAIN Aligned[i]
                /\ Aligned[i].source_count = 0

\* C7 amended: a turn no transcript segment overlaps still yields its
\* aligned segment, whose text field is present and empty; the segment has
\* the fields start, end, speaker, text and duration and no source_count;
\* with an empty transcript every aligned segment has the empty text, and
\* the result is not None.
C7_SilentTurnHasEmptyText ==
    (Ran /\ Loaded) =>
        /\ ~combined_result.is_none
        /\ Len(Aligned) = Len(D)
        /\ \A i \in DOMAIN D :
              /\ DOMAIN Aligned[i] = {"start", "end", "speaker", "text", "duration"}
              /\ ContributingSet(i) = {} => Aligned[i].text = EmptyText

\* C7 witness: a turn, a transcript segment that says something elsewhere,
\* and the turn's aligned segment with the empty text.
C7_Witness ==
    /\ Succeeded
    /\ \E i \in DOMAIN D :
          /\ T # << >>
          /\ \E j \in DOMAIN T : T[j].text # EmptyText /\ T[j].start < T[j].end
          /\ ContributingSet(i) = {}
          /\ Aligned[i].text = EmptyText

\* C8: an empty diarization gives a result that is not None and whose
\* segment sequence is empty, whatever the transcript holds.
C8_EmptyDiarization ==
    (Ran /\ Loaded /\ D = << >>) =>
        /\ ~combined_result.is_none
        /\ Aligned = << >>

\* C8 witness: no turns, a transcript of two segments, an empty result.
C8_Witness ==
    /\ Succeeded
    /\ D = << >>
    /\ Len(T) = 2
    /\ \A j \in DOMAIN T : T[j].text # EmptyText /\ T[j].start < T[j].end
    /\ Aligned = << >>

\* C9 as stated: the texts are joined in ascending start order of the
\* transcript segments (ties in input order), one space apart, trimmed.
C9_Original ==
    Succeeded =>
        \A i \in DOMAIN D \cap DOMAIN Aligned :
            Aligned[i].text = Trimmed(SpacedTexts(StartOrder(ContributingSet(i))))

\* C9 amended: the texts are joined in the order of the transcript's own
\* segment list, one space apart, trimmed; that is ascending start order
\* with ties in input order whenever the transcript is given start-sorted.
C9_JoinedInInputOrder ==
    Succeeded =>
        \A i \in DOMAIN D \cap DOMAIN Aligned :
            /\ Aligned[i].text = Trimmed(SpacedTexts(InputOrder(ContributingSet(i))))
            /\ StartSorted =>
                  Aligned[i].text = Trimmed(SpacedTexts(StartOrder(ContributingSet(i))))

\* C9 witness: a turn with two transcript segments in it, the later one
\* listed first, and the turn's text in the order of the list.
C9_Witness ==
    /\ Succeeded
    /\ \E i \in DOMAIN D :
          /\ ContributingSet(i) = {1, 2}
          /\ T[1].text # EmptyText
          /\ T[2].text # EmptyText
          /\ T[2].start < T[1].start
          /\ Aligned[i].text = <<Letter(1), " ", Letter(2)>>

----------------------------------------------------------------------------
(* What the claims about the store read.                                   *)

\* The rows of the store.
Rows == metadata_file.rows

\* The rows of a file_id.
RowsOf(file_id) == {k \in DOMAIN Rows : Rows[k].file_id = file_id}

\* The sum of duration_sec over the first n rows.
RECURSIVE DurationOfFirst(_)
DurationOfFirst(n) ==
    IF n = 0 THEN 0 ELSE DurationOfFirst(n - 1) + Rows[n].duration_sec

TotalDuration == DurationOfFirst(Len(Rows))

\* The quotient is the number 0.
IsZero(q) == q.den # 0 /\ q.num = 0

\* The quotient times k is the number n.
TimesIs(q, k, n) == q.den # 0 /\ q.num * k = n * q.den

\* What get_metadata_summary returns in the state.
Summary == get_metadata_summary(metadata_file)

TotalKeys == {"total_conversations", "total_duration_minutes", "average_duration_seconds"}

----------------------------------------------------------------------------
(* Claims about the store, checked under Spec.                             *)

\* C1 as stated: after any sequence of insertions and updates, and of runs
\* of the metadata-creation phase, the store holds at most one row per
\* file_id.
C1_Original == \A f \in FileIds : Cardinality(RowsOf(f)) <= 1

\* C2 as stated: after a record of file_id x is inserted and x is then
\* updated with some fields, the store holds exactly one record of x, in
\* which each supplied field has the new value and each other field the
\* inserted one.
C2_Original ==
    (last_op.op = "update" /\ last_op.inserted # NoRow) =>
        /\ Cardinality(RowsOf(last_op.file_id)) = 1
        /\ \A k \in RowsOf(last_op.file_id), c \in Columns :
              Rows[k][c] = IF c \in DOMAIN last_op.updates
                           THEN last_op.updates[c]
                           ELSE last_op.inserted[c]

\* C3 as stated: in every reachable state of the store the summary's total
\* duration is the sum of duration_sec over the rows and its count is the
\* number of rows.
C3_Original ==
    /\ TotalKeys \subseteq DOMAIN Summary
    /\ Summary.total_conversations = Len(Rows)
    /\ TimesIs(Summary.total_duration_minutes, 60, TotalDuration)

\* C3 amended: in every reachable state in which the metadata file exists
\* (from the first insertion on; it then holds at least one row) the
\* summary's total_conversations is the number of rows, its
\* total_duration_minutes times 60 is the sum of duration_sec over the rows
\* and its average times the count is that sum; a summary that was just
\* taken is this one.  Before the first insertion the summary is the error
\* value and has no totals.
C3_SummaryTotals ==
    /\ metadata_file.exists =>
          /\ Len(Rows) >= 1
          /\ TotalKeys \subseteq DOMAIN Summary
          /\ Summary.total_conversations = Len(Rows)
          /\ TimesIs(Summary.total_duration_minutes, 60, TotalDuration)
          /\ TimesIs(Summary.average_duration_seconds, Len(Rows), TotalDuration)
    /\ ~metadata_file.exists => DOMAIN Summary = {"error"}
    /\ last_op.op = "summary" => result.value = Summary

\* C3 witness: a summary taken of two rows of 100 s and 200 s: five
\* minutes, a mean of 150 s.
C3_Witness ==
    /\ last_op.op = "summary"
    /\ Len(Rows) = 2
    /\ Rows[1].duration_sec = 100
    /\ Rows[2].duration_sec = 200
    /\ result.value.total_conversations = 2
    /\ TimesIs(result.value.total_duration_minutes, 1, 5)
    /\ TimesIs(result.value.average_duration_seconds, 1, 150)

\* C4 as stated: the summary of a store without records is an aggregate
\* with count 0, total duration 0 and mean 0, and the report built from it
\* has 0 for the average, minimum and maximum duration.
C4_Original ==
    Len(LoadFrame(metadata_file)) = 0 =>
        /\ last_op.op = "summary" =>
              /\ TotalKeys \subseteq DOMAIN result.value
              /\ result.value.total_conversations = 0
              /\ IsZero(result.value.total_duration_minutes)
              /\ IsZero(result.value.average_duration_seconds)
        /\ last_op.op = "report" =>
              /\ IsZero(result.value.quality_metrics.average_duration_seconds)
              /\ IsZero(result.value.quality_metrics.min_duration_seconds)
              /\ IsZero(result.value.quality_metrics.max_duration_seconds)

\* C4 amended: the summary of a store without records (no metadata file
\* was written yet) is the error value {error: "No metadata file found"},
\* which has no count, total or mean; the report built from it has 0 for
\* total_conversations, for total_duration_minutes and for the average,
\* minimum and maximum duration, and empty histograms.
C4_EmptyStoreSummary ==
    Len(LoadFrame(metadata_file)) = 0 =>
        /\ ~metadata_file.exists
        /\ last_op.op = "summary" =>
              result.value = [error |-> "No metadata file found"]
        /\ last_op.op = "report" =>
              /\ result.value.dataset_info.total_conversations = 0
              /\ IsZero(result.value.dataset_info.total_duration_minutes)
              /\ result.value.dataset_info.languages = << >>
              /\ result.value.dataset_info.source_types = << >>
              /\ IsZero(result.value.quality_metrics.average_duration_seconds)
              /\ IsZero(result.value.quality_metrics.min_duration_seconds)
              /\ IsZero(result.value.quality_metrics.max_duration_seconds)

\* C4 witness: a report built while the store has no records, with 0 for
\* the average, minimum and maximum.
C4_Witness ==
    /\ Len(LoadFrame(metadata_file)) = 0
    /\ last_op.op = "report"
    /\ IsZero(result.value.quality_metrics.average_duration_seconds)
    /\ IsZero(result.value.quality_metrics.min_duration_seconds)
    /\ IsZero(result.value.quality_metrics.max_duration_seconds)

\* An update step whose file_id no row of the store has (the store may not
\* have a file yet).
UnknownUpdateStep ==
    /\ last_op'.op = "update"
    /\ Mask(LoadFrame(metadata_file), last_op'.file_id) = {}

\* C11 as stated: an update that references a file_id the store does not
\* hold returns a NotFound error to its caller and leaves the store as it
\* was.
C11_Original ==
    [][UnknownUpdateStep =>
          /\ metadata_file' = metadata_file
          /\ result'.kind = "error"
          /\ result'.returned # "None"]_vars

\* C11 amended: an update that references a file_id the store does not
\* hold (or that is made before the metadata file exists) logs an error,
\* returns None to its caller as a successful update does, and leaves the
\* store exactly as it was.
C11_UnknownIdLeavesStore ==
    [][UnknownUpdateStep =>
          /\ metadata_file' = metadata_file
          /\ result'.kind = "error"
          /\ result'.returned = "None"]_vars

\* C11 witness: the store holds a row, none of the file_id an update was
\* just made for, and the update logged its error.
C11_Witness ==
    /\ last_op.op = "update"
    /\ metadata_file.exists
    /\ Len(Rows) >= 1
    /\ RowsOf(last_op.file_id) = {}
    /\ result.kind = "error"

----------------------------------------------------------------------------
(* Claims about callers that run at the same time, checked under           *)
(* SpecConcurrent.                                                         *)

\* The file a whole call leaves of a file.
ApplyCall(op, file) ==
    IF op.op = "add" THEN AddedFile(file, op.inserted)
    ELSE UpdatedFile(file, op.file_id, op.updates)

\* Both callers have made their call.
BothEnded == \A p \in Callers : calls[p].pc \in {"done", "raised"}

\* The files the two calls leave when one runs after the other, from the
\* store the first of them found.
SerialOutcomes ==
    {ApplyCall(calls[q].op, ApplyCall(calls[p].op, calls[b].seen)) :
        <<b, p, q>> \in {t \in Callers \X Callers \X Callers :
                            calls[t[1]].first /\ t[2] # t[3]}}

\* C12 as stated: when two calls on the store are made at the same time
\* the store they leave is the one some serial order of the two leaves; no
\* record and no update of a field is lost.
C12_Original == BothEnded => metadata_file \in SerialOutcomes

\* The stores as they stood between complete operations: the store the
\* first call found (the present one while no call was made) and the store
\* each finished write left.
CommittedStores ==
    {calls[p].seen : p \in {q \in Callers : calls[q].pc # "idle" /\ calls[q].first}}
        \cup {calls[p].wrote : p \in {q \in Callers : calls[q].pc = "done" /\ calls[q].written}}
        \cup (IF \A p \in Callers : calls[p].pc = "idle" THEN {metadata_file} ELSE {})

\* C13 as stated: a summary taken while calls are in progress is the
\* aggregate of the store as it stood between two complete operations.
C13_Original ==
    last_op.op = "summary" =>
        /\ result.kind = "summary"
        /\ \E file \in CommittedStores : result.value = get_metadata_summary(file)

----------------------------------------------------------------------------
(* Claims about intervals that end before they start, checked under        *)
(* SpecUnchecked.                                                          *)

Malformed(seg) == seg.end < seg.start

\* The positions of the well-formed diarization segments.
WellFormedTurns == {i \in DOMAIN D : ~Malformed(D[i])}

\* C15 as stated: a segment that ends before it starts is rejected and
\* that segment alone is skipped: the aligned segments are those of the
\* remaining diarization segments.
C15_Original ==
    (Ran /\ Loaded) =>
        /\ ~combined_result.is_none
        /\ Len(Aligned) = Cardinality(WellFormedTurns)

\* C15 amended: a segment that ends before it starts is not rejected and
\* no error is reported.  A diarization segment that ends before it starts
\* still yields its aligned segment, with its interval and its duration
\* copied and with the empty text; a transcript segment that ends before it
\* starts is in the text of no aligned segment; the other segments are
\* aligned as always.
C15_MalformedIsCarriedAlong ==
    (Ran /\ Loaded) =>
        /\ ~combined_result.is_none
        /\ Len(Aligned) = Len(D)
        /\ \A i \in DOMAIN D :
              /\ Aligned[i].start = D[i].start
              /\ Aligned[i].end = D[i].end
              /\ Aligned[i].duration = D[i].end - D[i].start
              /\ Malformed(D[i]) => Aligned[i].text = EmptyText
              /\ \A j \in DOMAIN T :
                    /\ Malformed(T[j]) => ~Occurs(Letter(j), Aligned[i].text)
                    /\ (~Malformed(D[i]) /\ ~Malformed(T[j])) =>
                          (Occurs(Letter(j), Aligned[i].text) <=> PositiveOverlap(D[i], T[j]))

\* C15 witness: a turn that ends before it starts and a turn a transcript
\* segment lies in; the first has its aligned segment with the empty text
\* and a negative duration, the second has the segment's text.
C15_Witness ==
    /\ Succeeded
    /\ Len(D) = 2
    /\ Len(T) = 1
    /\ Malformed(D[1])
    /\ Aligned[1].text = EmptyText
    /\ Aligned[1].duration < 0
    /\ Aligned[2].text = <<Letter(1)>>

----------------------------------------------------------------------------
(* Claims about create_metadata_entry, checked under SpecEntry.            *)

\* The call was made with an empty file_id or a negative duration.
IncompleteCall == entry_call.file_id = "" \/ entry_call.duration_sec < 0

\* C17 as stated: building a record fails with IncompleteInput when the
\* file_id is empty or the duration is negative, and succeeds on every
\* other input.
C17_Original ==
    entry_call.called =>
        IF IncompleteCall
        THEN entry_call.returned.kind = "raised"
        ELSE entry_call.returned.kind = "entry"

\* C17 amended: building a record succeeds on every input; an empty
\* file_id and a negative duration are stored in the record as they were
\* given.
C17_EntryIsBuiltFromAnyInput ==
    entry_call.called =>
        /\ entry_call.returned.kind = "entry"
        /\ entry_call.returned.value.file_id = entry_call.file_id
        /\ entry_call.returned.value.duration_sec = entry_call.duration_sec
        /\ entry_call.returned.value.num_speakers = entry_call.num_speakers
        /\ entry_call.returned.value.source_type = entry_call.source_type
        /\ entry_call.returned.value.language = entry_call.language

\* C17 witness: a record built with an empty file_id and a negative
\* duration.
C17_Witness ==
    /\ entry_call.called
    /\ entry_call.returned.kind = "entry"
    /\ entry_call.returned.value.file_id = ""
    /\ entry_call.returned.value.duration_sec = -1

----------------------------------------------------------------------------
(* Claims about the batch, checked under SpecPipe.                         *)

\* The recordings whose two files are there and load.
Combinable ==
    {f \in DOMAIN diarization_dir \cap DOMAIN transcript_dir :
        diarization_dir[f].readable /\ transcript_dir[f].readable}

\* The combination phase has run to its end: its entry is in the log.
CombinationEntries == {k \in DOMAIN processing_log : processing_log[k].phase = "combination"}

\* C14: when the diarization or the transcript file of a recording is not
\* there or does not load, that recording alone is left out: once the
\* combination phase has run, exactly the recordings whose two files load
\* are combined, and the phase reaches its end, where it logs their number.
C14_OnlyTheFailedIsSkipped ==
    /\ combined_dir = IF CombinationEntries # {} THEN Combinable ELSE {}
    /\ \A k \in CombinationEntries : processing_log[k].count = Cardinality(Combinable)

\* C14 witness: the diarization of c1 does not load, c2 was combined, and
\* the phase logged one combined recording.
C14_Witness ==
    /\ "c1" \in DOMAIN diarization_dir
    /\ ~diarization_dir["c1"].readable
    /\ "c1" \in DOMAIN transcript_dir
    /\ combined_dir = {"c2"}
    /\ \E k \in CombinationEntries : processing_log[k].count = 1

\* What the alignment gives a recording when it is aligned on its own.
AlignedAlone(file_id) ==
    CombineRecording(file_id, diarization_dir[file_id], transcript_dir[file_id])

MaxEnd(segments) ==
    IF segments = << >> THEN 0
    ELSE CHOOSE m \in {segments[k].end : k \in DOMAIN segments} :
            \A k \in DOMAIN segments : segments[k].end <= m

\* C18: the duration of a recording, in its combined result and in its
\* metadata rows, is the greatest end of its diarization segments, 0 when
\* there are none; it is the diarization's, not the transcript's.  (The
\* aligned segments have the intervals of the diarization segments, so
\* their greatest end is the same number.)
C18_DurationIsGreatestEnd ==
    /\ \A f \in combined_dir :
          combined_data[f].duration = MaxEnd(diarization_dir[f].data.segments)
    /\ \A k \in DOMAIN Rows :
          Rows[k].duration_sec = MaxEnd(diarization_dir[Rows[k].file_id].data.segments)

\* C18 witness: a row of c1, whose first turn ends after its second and
\* whose transcript reports another duration.
C18_Witness ==
    /\ "c1" \in combined_dir
    /\ Len(diarization_dir["c1"].data.segments) = 2
    /\ diarization_dir["c1"].data.segments[1].end > diarization_dir["c1"].data.segments[2].end
    /\ \E k \in DOMAIN Rows :
          /\ Rows[k].file_id = "c1"
          /\ Rows[k].duration_sec = diarization_dir["c1"].data.segments[1].end
          /\ Rows[k].duration_sec # transcript_dir["c1"].data.duration

\* The speaker labels that occur in the segments.
LabelsOf(segments) == {segments[k].speaker : k \in DOMAIN segments}

\* C19: the num_speakers of a recording, in its combined result and in its
\* metadata rows, is the number of distinct speaker labels of its aligned
\* segments, 0 when it has no segments.
C19_NumSpeakersIsDistinctLabels ==
    /\ \A f \in combined_dir :
          combined_data[f].num_speakers = Cardinality(LabelsOf(combined_data[f].segments))
    /\ \A k \in DOMAIN Rows :
          Rows[k].num_speakers =
              Cardinality(LabelsOf(combined_data[Rows[k].file_id].segments))

\* C19 witness: a row of c1, whose two turns are one speaker's, with
\* num_speakers 1.
C19_Witness ==
    /\ "c1" \in combined_dir
    /\ Len(combined_data["c1"].segments) = 2
    /\ combined_data["c1"].segments[1].speaker = combined_data["c1"].segments[2].speaker
    /\ \E k \in DOMAIN Rows : Rows[k].file_id = "c1" /\ Rows[k].num_speakers = 1

\* The keys the report takes from the summary.
InfoKeys == {"total_conversations", "total_duration_minutes", "languages", "source_types"}

MetricKeys == {"average_duration_seconds", "min_duration_seconds", "max_duration_seconds"}

\* C20 as stated: the totals, histograms and durations of a report are
\* the values of the summary it was built from, its processing_log is the
\* log in its order, and building it changes neither store nor log.
C20_Original ==
    [][last_op'.op = "report" =>
          /\ InfoKeys \cup MetricKeys \subseteq DOMAIN Summary
          /\ \A key \in InfoKeys : result'.value.dataset_info[key] = Summary[key]
          /\ \A key \in MetricKeys : result'.value.quality_metrics[key] = Summary[key]
          /\ result'.value.processing_log = processing_log
          /\ metadata_file' = metadata_file
          /\ processing_log' = processing_log]_vars

\* C20 amended: when the metadata file exists, the totals, histograms and
\* durations of a report are the values of the summary it was built from;
\* when it does not, the summary is the error value and the report has 0
\* for its numbers and empty histograms.  Its processing_log is the log,
\* every entry in its order, and building it changes neither store nor log.
C20_ReportIsMergeOfSummaryAndLog ==
    [][last_op'.op = "report" =>
          /\ metadata_file.exists =>
                /\ \A key \in InfoKeys : result'.value.dataset_info[key] = Summary[key]
                /\ \A key \in MetricKeys : result'.value.quality_metrics[key] = Summary[key]
          /\ ~metadata_file.exists =>
                /\ Summary = ErrorSummary
                /\ result'.value.dataset_info.total_conversations = 0
                /\ IsZero(result'.value.dataset_info.total_duration_minutes)
                /\ result'.value.dataset_info.languages = EmptyDict
                /\ result'.value.dataset_info.source_types = EmptyDict
                /\ \A key \in MetricKeys : IsZero(result'.value.quality_metrics[key])
          /\ Len(result'.value.processing_log) = Len(processing_log)
          /\ \A k \in DOMAIN processing_log :
                result'.value.processing_log[k] = processing_log[k]
          /\ metadata_file' = metadata_file
          /\ processing_log' = processing_log]_vars

\* C20 witness: a report of a store with a row, built after the
\* diarization, transcription and combination phases logged in that order.
C20_Witness ==
    /\ last_op.op = "report"
    /\ Len(Rows) >= 1
    /\ result.value.dataset_info.total_conversations = Len(Rows)
    /\ Len(result.value.processing_log) = 3
    /\ result.value.processing_log[1].phase = "diarization"
    /\ result.value.processing_log[2].phase = "transcription"
    /\ result.value.processing_log[3].phase = "combination"

----------------------------------------------------------------------------
(* Claims about the overlap test and the order of the aligned segments,    *)
(* checked under SpecAlign.                                                *)

\* The test of the if statement: t.start < d.end and t.end > d.start.
SatisfiesPredicate(d, t) == t.start < d.end /\ t.end > d.start

\* min(d.end, t.end) - max(d.start, t.start)
OverlapDuration(d, t) ==
    (IF d.end <= t.end THEN d.end ELSE t.end)
        - (IF d.start >= t.start THEN d.start ELSE t.start)

ZeroLength(seg) == seg.start = seg.end

\* C22 as stated: every pair (d, t) that satisfies the overlap predicate
\* has an overlap_duration above 0, so that the discard of matches with
\* overlap_duration <= 0 removes no match: what satisfies the predicate is
\* in the text.
C22_Original ==
    Succeeded =>
        \A i \in DOMAIN D, j \in DOMAIN T :
            SatisfiesPredicate(D[i], T[j]) =>
                /\ OverlapDuration(D[i], T[j]) > 0
                /\ T[j].text # EmptyText => Occurs(Letter(j), Aligned[i].text)

\* C22 amended: a pair (d, t) of intervals of positive length that
\* satisfies the overlap predicate has an overlap_duration above 0 and is
\* not discarded; a pair in which d or t has length zero can satisfy the
\* predicate (the one lies strictly inside the other), its overlap_duration
\* is then 0 and the discard removes it.
C22_DiscardRemovesZeroLengthMatches ==
    Succeeded =>
        \A i \in DOMAIN D, j \in DOMAIN T :
            SatisfiesPredicate(D[i], T[j]) =>
                IF ZeroLength(D[i]) \/ ZeroLength(T[j])
                THEN /\ OverlapDuration(D[i], T[j]) = 0
                     /\ ~Occurs(Letter(j), Aligned[i].text)
                ELSE /\ OverlapDuration(D[i], T[j]) > 0
                     /\ T[j].text # EmptyText => Occurs(Letter(j), Aligned[i].text)

\* C22 witness: a transcript segment that says something, a turn of
\* positive length it overlaps, whose text it is in, and a turn of length
\* zero strictly inside it, which satisfies the predicate and whose text
\* is empty.
C22_Witness ==
    /\ Succeeded
    /\ \E i, k \in DOMAIN D, j \in DOMAIN T :
          /\ T[j].text # EmptyText
          /\ ~ZeroLength(D[i])
          /\ SatisfiesPredicate(D[i], T[j])
          /\ Occurs(Letter(j), Aligned[i].text)
          /\ ZeroLength(D[k])
          /\ SatisfiesPredicate(D[k], T[j])
          /\ Aligned[k].text = EmptyText

\* C23: an interval of length zero is taken as any other (the function
\* returns its result, one aligned segment per turn) and contributes no
\* overlap: a transcript segment of length zero is in the text of no
\* aligned segment, and the aligned segment of a turn of length zero has
\* the empty text.
C23_ZeroLengthContributesNothing ==
    (Ran /\ Loaded) =>
        /\ ~combined_result.is_none
        /\ Len(Aligned) = Len(D)
        /\ \A j \in DOMAIN T :
              (ZeroLength(T[j]) /\ T[j].text # EmptyText) =>
                  \A i \in DOMAIN D : ~Occurs(Letter(j), Aligned[i].text)
        /\ \A i \in DOMAIN D :
              ZeroLength(D[i]) =>
                  /\ Aligned[i].text = EmptyText
                  /\ Aligned[i].start = Aligned[i].end

\* C23 witness: a transcript segment of length zero that says something,
\* strictly inside a turn whose text is empty, and a turn of length zero
\* with its aligned segment.
C23_Witness ==
    /\ Succeeded
    /\ \E i, k \in DOMAIN D, j \in DOMAIN T :
          /\ ZeroLength(T[j])
          /\ T[j].text # EmptyText
          /\ D[i].start < T[j].start
          /\ T[j].end < D[i].end
          /\ Aligned[i].text = EmptyText
          /\ ZeroLength(D[k])
          /\ Aligned[k].text = EmptyText

\* The turn at position k of the diarization's list starts before the one
\* at position j, or with it and is listed earlier.
TurnStartsBefore(k, j) ==
    \/ D[k].start < D[j].start
    \/ D[k].start = D[j].start /\ k < j

\* The position in the diarization's list of the turn that is p-th in
\* ascending start order, ties in the order of the list.
TurnByStart(p) ==
    CHOOSE j \in DOMAIN D : Cardinality({k \in DOMAIN D : TurnStartsBefore(k, j)}) = p - 1

\* The diarization is given in ascending start order.
TurnsStartSorted == \A k, j \in DOMAIN D : k < j => D[k].start <= D[j].start

\* The aligned segment has the interval and the speaker of the turn.
CopiedFrom(aligned, turn) ==
    /\ aligned.start = turn.start
    /\ aligned.end = turn.end
    /\ aligned.speaker = turn.speaker

\* C24 as stated: there is one aligned segment per turn, the aligned
\* segments are in ascending start order of the turns (ties in the order of
\* the input), and each has the start, the end and the speaker of its turn,
\* also when the turns are not given in start order.
C24_Original ==
    Succeeded =>
        /\ Len(Aligned) = Len(D)
        /\ \A p \in DOMAIN D : CopiedFrom(Aligned[p], D[TurnByStart(p)])

\* C24 amended: there is one aligned segment per turn, the aligned segments
\* are in the order of the diarization's own segment list, and each has the
\* start, the end and the speaker of its turn; that order is ascending start
\* order with ties in input order whenever the diarization is given
\* start-sorted.
C24_AlignedInListOrder ==
    Succeeded =>
        /\ Len(Aligned) = Len(D)
        /\ \A p \in DOMAIN D : CopiedFrom(Aligned[p], D[p])
        /\ TurnsStartSorted =>
              \A p \in DOMAIN D : CopiedFrom(Aligned[p], D[TurnByStart(p)])

\* C24 witness: two turns of two speakers, the later one listed first, and
\* the aligned segments in the order of the list.
C24_Witness ==
    /\ Succeeded
    /\ Len(D) = 2
    /\ D[1].start > D[2].start
    /\ D[1].speaker # D[2].speaker
    /\ Aligned[1].start = D[1].start
    /\ Aligned[1].speaker = D[1].speaker
    /\ Aligned[2].start = D[2].start

----------------------------------------------------------------------------
(* Claims about the histograms and about updates, checked under Spec.      *)

\* The sum of the counts of a histogram.
RECURSIVE SumOfCounts(_)
SumOfCounts(histogram) ==
    IF DOMAIN histogram = {} THEN 0
    ELSE LET v == CHOOSE w \in DOMAIN histogram : TRUE
         IN  histogram[v]
                 + SumOfCounts([w \in DOMAIN histogram \ {v} |-> histogram[w]])

\* C27 as stated, of the states in which the store has its file (before
\* the first insertion there is no summary to speak of): the counts of the
\* histogram of languages, of source types and of speaker counts each sum
\* to the summary's total_conversations.
C27_Original ==
    metadata_file.exists =>
        /\ SumOfCounts(Summary.languages) = Summary.total_conversations
        /\ SumOfCounts(Summary.source_types) = Summary.total_conversations
        /\ SumOfCounts(Summary.speaker_counts) = Summary.total_conversations

\* C26: an update changes only the records of the file_id it is given:
\* every record of another file_id keeps all its field values, and the
\* store holds as many records after the update as before it, whether the
\* update found its record or not.
C26_UpdateChangesOnlyItsRecords ==
    [][last_op'.op = "update" =>
          /\ metadata_file'.exists = metadata_file.exists
          /\ Len(metadata_file'.rows) = Len(metadata_file.rows)
          /\ \A k \in DOMAIN metadata_file.rows :
                metadata_file.rows[k].file_id # last_op'.file_id =>
                    metadata_file'.rows[k] = metadata_file.rows[k]]_vars

\* C26 witness: two records of two file_ids; the language of the one was
\* just updated, the other has the language it had.
C26_Witness ==
    /\ last_op.op = "update"
    /\ result = ReturnedNone
    /\ "language" \in DOMAIN last_op.updates
    /\ Len(Rows) = 2
    /\ \E k, j \in DOMAIN Rows :
          /\ Rows[k].file_id = last_op.file_id
          /\ Rows[k].language = last_op.updates.language
          /\ Rows[j].file_id # last_op.file_id
          /\ Rows[j].language # last_op.updates.language

\* An update step whose updates name a field that is not a column.
UnknownColumnStep ==
    /\ last_op'.op = "update"
    /\ ~(DOMAIN last_op'.updates \subseteq Columns)

\* C29: an update that supplies a field name which is not a column of the
\* stored records makes no new column and changes no field of the matched
\* record for it, while the fields it supplies that are columns take their
\* new values; the records of other file_ids are as they were.
C29_UnknownFieldIsIgnored ==
    [][UnknownColumnStep =>
          /\ Len(metadata_file'.rows) = Len(metadata_file.rows)
          /\ \A k \in DOMAIN metadata_file.rows :
                /\ DOMAIN metadata_file'.rows[k] = DOMAIN metadata_file.rows[k]
                /\ \A c \in DOMAIN metadata_file.rows[k] :
                      metadata_file'.rows[k][c] =
                          IF /\ metadata_file.rows[k].file_id = last_op'.file_id
                             /\ c \in DOMAIN last_op'.updates
                          THEN last_op'.updates[c]
                          ELSE metadata_file.rows[k][c]]_vars

\* C29 witness: an update of duration and language found its record: the
\* record has the new language, the duration_sec it had, and no column
\* duration.
C29_Witness ==
    /\ last_op.op = "update"
    /\ result = ReturnedNone
    /\ DOMAIN last_op.updates = {"duration", "language"}
    /\ \E k \in DOMAIN Rows :
          /\ Rows[k].file_id = last_op.file_id
          /\ DOMAIN Rows[k] = Columns
          /\ Rows[k].language = last_op.updates.language
          /\ Rows[k].duration_sec # last_op.updates.duration

----------------------------------------------------------------------------
(* A claim about the speaker_roles column, checked under SpecEntry.        *)

\* str.split('|') of a text: the parts between the delimiters, one part
\* more than there are delimiters.
RECURSIVE SplitBar(_)
SplitBar(text) ==
    IF ~Occurs(RoleDelimiter, text) THEN <<text>>
    ELSE LET p == CHOOSE k \in DOMAIN text :
                     /\ text[k] = RoleDelimiter
                     /\ \A m \in 1 .. (k - 1) : text[m] # RoleDelimiter
         IN  <<SubSeq(text, 1, p - 1)>> \o SplitBar(SubSeq(text, p + 1, Len(text)))

\* The string stored for the roles of the call.
StoredRoles == entry_call.returned.value.speaker_roles

\* No role of the list holds the delimiter.
PlainRoles(roles) == \A k \in DOMAIN roles : ~Occurs(RoleDelimiter, roles[k])

\* C30 as stated: splitting the stored speaker_roles string on '|' gives
\* the role list the caller passed, for every role list, the empty one and
\* one of a single role included.
C30_Original ==
    entry_call.called => SplitBar(StoredRoles) = entry_call.speaker_roles

\* C30 amended: splitting the stored string on '|' gives the role list the
\* caller passed for every list of at least one role none of which holds
\* '|' (a single role included); the empty list is stored as the empty
\* string, which splits into one empty role and which pd.read_csv reads
\* back as NaN.
C30_RolesRoundTrip ==
    entry_call.called =>
        /\ (entry_call.speaker_roles # << >> /\ PlainRoles(entry_call.speaker_roles)) =>
              SplitBar(StoredRoles) = entry_call.speaker_roles
        /\ entry_call.speaker_roles = << >> =>
              /\ StoredRoles = EmptyText
              /\ SplitBar(StoredRoles) = <<EmptyText>>
              /\ ReadCsv(<<entry_call.returned.value>>)[1].speaker_roles = MissingRoles

\* C30 witness: the roles scammer and victim, stored with one delimiter
\* between them and split into the two again.
C30_Witness ==
    /\ entry_call.called
    /\ entry_call.speaker_roles = <<Scammer, Victim>>
    /\ StoredRoles = <<"s", "|", "v">>
    /\ SplitBar(StoredRoles) = <<Scammer, Victim>>

----------------------------------------------------------------------------
(* A claim about the processing log, checked under SpecRun.                *)

\* The place of a phase in run_full_pipeline.
PhaseRank(phase) ==
    CASE phase = "data_collection"  -> 1
      [] phase = "audio_processing" -> 2
      [] phase = "diarization"      -> 3
      [] phase = "transcription"    -> 4
      [] phase = "combination"      -> 5

InPhaseOrder(log) ==
    \A i, j \in DOMAIN log :
        i < j => PhaseRank(log[i].phase) <= PhaseRank(log[j].phase)

IsPrefix(s, t) == Len(s) <= Len(t) /\ SubSeq(t, 1, Len(s)) = s

\* The entries a step appended.
NewEntries == SubSeq(processing_log', Len(processing_log) + 1, Len(processing_log'))

NewPhases == {NewEntries[k].phase : k \in DOMAIN NewEntries}

\* The log only grows, in the order of the phases, and the entry of a
\* phase is there together with what the phase wrote.
LogGrowsInOrder ==
    /\ IsPrefix(processing_log, processing_log')
    /\ InPhaseOrder(processing_log')
    /\ "audio_processing" \in NewPhases => BatchMetadataPath \in project_dir'
    /\ "diarization" \in NewPhases =>
          /\ "diarization" \in project_dir'
          /\ NewEntries[1].count = Cardinality(DOMAIN diarization_dir')
    /\ "transcription" \in NewPhases =>
          /\ "transcripts" \in project_dir'
          /\ NewEntries[1].count = Cardinality(DOMAIN transcript_dir')
    /\ "combination" \in NewPhases =>
          /\ CombinedDirPath \in project_dir'
          /\ NewEntries[1].count = Cardinality(combined_dir')

\* A phase of the five that found nothing to work on.
FoundNoInput(op) ==
    \/ op = "process_audio" /\ raw_dir = {}
    \/ op \in {"perform_diarization", "perform_transcription"} /\ ProcessedDirEmpty
    \/ op = "combine_results" /\ DOMAIN diarization_dir = {}

\* The guarded phases: process_audio, perform_diarization and
\* perform_transcription return before their work when the directory they
\* read is missing or empty.
GuardedFoundNoInput(op) ==
    op # "combine_results" /\ FoundNoInput(op)

\* C28 as stated: the log is append-only and in the order of the phases,
\* a phase appends its entry after its work, and a phase that finds no
\* input appends nothing.
C28_Original ==
    [][/\ LogGrowsInOrder
       /\ FoundNoInput(last_op'.op) => processing_log' = processing_log]_vars

\* C28: the log is append-only and in the order data_collection,
\* audio_processing, diarization, transcription, combination; the entry of
\* a phase is appended in the step that wrote the phase's output;
\* process_audio, perform_diarization and perform_transcription append
\* nothing when the directory they read is missing or empty;
\* combine_results appends its entry whenever it returns, with count 0
\* when there was no diarization file to combine, and nothing when it
\* raised.
C28_LogAppendOnlyInPhaseOrder ==
    [][/\ LogGrowsInOrder
       /\ GuardedFoundNoInput(last_op'.op) => processing_log' = processing_log
       /\ last_op'.op = "combine_results" =>
             IF result'.kind = "raised"
             THEN processing_log' = processing_log
             ELSE /\ Len(NewEntries) = 1
                  /\ NewEntries[1].phase = "combination"
                  /\ DOMAIN diarization_dir = {} => NewEntries[1].count = 0]_vars

\* The run reached combine_results with scenarios logged and no recording
\* anywhere: the three guarded phases appended nothing, the combination
\* appended its entry with count 0.
C28_Witness ==
    /\ last_op.op = "combine_results"
    /\ Len(processing_log) = 2
    /\ processing_log[1].phase = "data_collection"
    /\ processing_log[2] = LogEntry("combination", "combine_results", 0)

----------------------------------------------------------------------------
(* A claim about the stored segments of a recording, checked under         *)
(* SpecInsert.                                                             *)

SortedByStart(segs) ==
    \A i, j \in DOMAIN segs : i < j => segs[i].start <= segs[j].start

\* The segment that was inserted as the n-th says the n-th letter.
InsertionRank(seg) == CHOOSE n \in 1 .. MaxInserts : seg.text = <<Letter(n)>>

TiesInInsertionOrder(segs) ==
    \A i, j \in DOMAIN segs :
        i < j /\ segs[i].start = segs[j].start =>
            InsertionRank(segs[i]) < InsertionRank(segs[j])

\* C25 as stated: after any sequence of inserts the stored segments are
\* sorted ascending by start, and segments with equal start are in the
\* order they were inserted.
C25_Original ==
    /\ SortedByStart(built_segments)
    /\ TiesInInsertionOrder(built_segments)
    /\ transcription_file.readable =>
          /\ SortedByStart(transcription_file.data.segments)
          /\ TiesInInsertionOrder(transcription_file.data.segments)

\* C25: after any sequence of inserts the stored segments are in the
\* order they were inserted, in the list and in the file written from it;
\* so segments with equal start are in the order they were inserted, and
\* the list is sorted ascending by start whenever every segment was
\* inserted with a start no less than the one inserted before it.
C25_StoredInInsertionOrder ==
    [][/\ last_op'.op = "append_segment" =>
             /\ built_segments' = built_segments \o <<last_op'.inserted>>
             /\ InsertionRank(last_op'.inserted) = Len(built_segments')
             /\ TiesInInsertionOrder(built_segments')
             /\ SortedByStart(built_segments') <=>
                   /\ SortedByStart(built_segments)
                   /\ \/ built_segments = << >>
                      \/ built_segments[Len(built_segments)].start
                            <= last_op'.inserted.start
       /\ last_op'.op = "transcribe" =>
             transcription_file'.data.segments = built_segments]_vars

\* A transcript file was written whose segments were inserted with
\* decreasing starts and with equal starts.
C25_Witness ==
    /\ transcription_file.readable
    /\ Len(transcription_file.data.segments) = MaxInserts
    /\ ~SortedByStart(transcription_file.data.segments)
    /\ \E i, j \in DOMAIN built_segments :
          i < j /\ built_segments[i].start = built_segments[j].start

----------------------------------------------------------------------------
(* A claim about the overlap query, checked under SpecScan.                *)

\* The query in hand, and the stored segments tested for it so far.
Query == D[diar_pos]

Tested == 1 .. trans_pos

\* The stored segments among those tested that the naive scan returns for
\* a query: the predicate holds and the overlap is positive.
NaiveMatches(d, tested) ==
    {j \in tested : SatisfiesPredicate(d, T[j]) /\ OverlapDuration(d, T[j]) > 0}

\* The stored segments the entries of overlapping_text were made from.
ReturnedMatches == {j \in DOMAIN T : \E k \in DOMAIN overlapping :
                                        overlapping[k].text = T[j].text}

\* The scan has gathered exactly the matches of the query among the
\* segments tested, each once and in the order of the list.
GatheredAllMatches ==
    diar_pos >= 1 =>
        /\ ReturnedMatches = NaiveMatches(Query, Tested)
        /\ Len(overlapping) = Cardinality(ReturnedMatches)
        /\ \A k, m \in DOMAIN overlapping :
              k < m => \E i, j \in DOMAIN T :
                          /\ i < j
                          /\ overlapping[k].text = T[i].text
                          /\ overlapping[m].text = T[j].text

\* The cursor of the sweep: it moves forward only past a segment that ends
\* at or before the start of the query, and a query that starts before the
\* query before it finds the cursor moved back by one.
CursorSweeps ==
    /\ trans_pos' > trans_pos /\ diar_pos' = diar_pos =>
          T[trans_pos'].end <= Query.start
    /\ diar_pos' > diar_pos /\ diar_pos >= 1 =>
          trans_pos' = IF D[diar_pos'].start < Query.start
                       THEN Max2(trans_pos - 1, 0)
                       ELSE trans_pos

\* C21 as stated: the overlap query is a sweep with a cursor that moves
\* forward only past segments ending at or before the query's start and
\* moves back by one for a query that starts earlier than the one before,
\* and it returns what the naive nested scan returns.
C21_Original ==
    [][CursorSweeps /\ GatheredAllMatches']_vars

\* C21: the overlap query is the nested scan itself: for every query, in
\* whatever order the queries come and however they overlap, the scan
\* starts over at the first stored segment, tests every stored segment,
\* and returns exactly the stored segments that satisfy the predicate with
\* a positive overlap, in stored order.
C21_ScanReturnsAllMatches ==
    [][/\ GatheredAllMatches'
       /\ last_op'.op = "next_diar_seg" => trans_pos' = 0
       /\ last_op'.op = "append_combined" =>
             /\ trans_pos = Len(T)
             /\ combined_segments'[diar_pos].text =
                   Strip(JoinSpace([k \in 1 .. Cardinality(NaiveMatches(Query, DOMAIN T)) |->
                       T[CHOOSE j \in NaiveMatches(Query, DOMAIN T) :
                           Cardinality({i \in NaiveMatches(Query, DOMAIN T) : i <= j}) = k].text]))
       /\ last_op'.op = "return_combined" =>
             combined_result' = combine_diarization_transcription(diarization_file,
                                                                  transcription_file)]_vars

\* The second query starts before the first and overlaps it, and the scan
\* for it has returned the first stored segment, which the first query
\* did not match.
C21_Witness ==
    /\ diar_pos = 2
    /\ D[2].start < D[1].start
    /\ SatisfiesPredicate(D[1], D[2])
    /\ trans_pos = Len(T)
    /\ 1 \in ReturnedMatches
    /\ 1 \notin NaiveMatches(D[1], DOMAIN T)

====
